---- MODULE Spec2Model ----
(***************************************************************************)
(* A model of the intercpp scripting language: Lexer -> Parser -> AST ->   *)
(* Environment.  The lexer works on a sequence of lexemes, the parser is   *)
(* the recursive descent of Parser.cpp, evaluation is the tree walk of     *)
(* AST.cpp against the Environment of Environment.cpp.  A thrown           *)
(* std::runtime_error is a non-empty `error` string that every caller      *)
(* propagates; the side effects made before the throw stay.                *)
(***************************************************************************)
EXTENDS Integers, Sequences, FiniteSets, TLC

(***************************************************************************)
(* Bounds of the model                                                     *)
(***************************************************************************)
\* iterations one loop statement may make before the model gives up on it
MaxIter == 6
\* calls of Environment::evaluateFunction the host makes after a program ran
MaxHostCalls == 2
\* most binary operators in an expression given to parseExpression
MaxOperators == 2
\* most lexemes in an input of brackets given to the lexer
MaxBrackets == 4
\* most #import lexemes in an input given to the lexer
MaxImports == 2

(***************************************************************************)
(* double: a number is a normalised fraction <<numerator, denominator>>    *)
(***************************************************************************)
Abs(n) == IF n < 0 THEN -n ELSE n

RECURSIVE GCD(_, _)
GCD(a, b) == IF b = 0 THEN a ELSE GCD(b, a % b)

Frac(n, d) ==
    LET g == GCD(Abs(n), Abs(d))
        s == IF d < 0 THEN -1 ELSE 1
    IN  <<(s * n) \div g, (s * d) \div g>>

Whole(n) == <<n, 1>>
DAdd(a, b) == Frac(a[1] * b[2] + b[1] * a[2], a[2] * b[2])
DSub(a, b) == Frac(a[1] * b[2] - b[1] * a[2], a[2] * b[2])
DMul(a, b) == Frac(a[1] * b[1], a[2] * b[2])
DDiv(a, b) == Frac(a[1] * b[2], a[2] * b[1])
DNeg(a) == <<-a[1], a[2]>>
DLess(a, b) == a[1] * b[2] < b[1] * a[2]
DLessEq(a, b) == a[1] * b[2] <= b[1] * a[2]
DIsZero(a) == a[1] = 0
\* static_cast<int>(d): truncation toward zero
DTrunc(a) == IF a[1] >= 0 THEN a[1] \div a[2] ELSE -((-a[1]) \div a[2])

(***************************************************************************)
(* VariableValue: the variant of Types.hpp, <<alternative, payload>>       *)
(***************************************************************************)
Double(d) == <<"double", d>>
Bool(b) == <<"bool", b>>
String(s) == <<"string", s>>
Array(elems) == <<"array", elems>>
Map(m) == <<"map", m>>
FunctionRef(f) == <<"function", f>>

Kind(v) == v[1]
Payload(v) == v[2]

EmptyMap == [k \in {} |-> 0]
Put(m, k, v) == [x \in (DOMAIN m) \cup {k} |-> IF x = k THEN v ELSE m[x]]

\* VariableValue(): the variant's first alternative, value-initialised
DefaultValue == Double(Whole(0))

NoError == ""

\* what an evaluate()/Environment call hands back: the environment as it
\* left it, the returned value, and the message of the exception thrown
Result(env, value, error) == [env |-> env, value |-> value, error |-> error]
Ok(env, value) == Result(env, value, NoError)
Throw(env, msg) == Result(env, DefaultValue, msg)

(***************************************************************************)
(* Environment                                                             *)
(***************************************************************************)
NewEnvironment ==
    [ functionRegistry      |-> {},
      userFunctionRegistry  |-> EmptyMap,
      classRegistry         |-> EmptyMap,
      variableTable         |-> EmptyMap,
      variableScopes        |-> << EmptyMap >>,
      currentObjectInstance |-> EmptyMap,
      printed               |-> << >> ]

registerFunction(env, name) ==
    IF name \in env.functionRegistry
    THEN Throw(env, "Function already registered")
    ELSE Ok([env EXCEPT !.functionRegistry = @ \cup {name}], DefaultValue)

registerUserFunction(env, name, functionNode) ==
    IF name \in DOMAIN env.userFunctionRegistry
    THEN Throw(env, "User-defined function already registered")
    ELSE Ok([env EXCEPT !.userFunctionRegistry = Put(@, name, functionNode)],
            DefaultValue)

\* registerClass replacing the definition a name already has
registerClassReplacing(env, name, classDef) ==
    Ok([env EXCEPT !.classRegistry = Put(@, name, classDef)], DefaultValue)

registerClass(env, name, classDef) ==
    IF name \in DOMAIN env.classRegistry
    THEN Throw(env, "Class already registered")
    ELSE Ok([env EXCEPT !.classRegistry = Put(@, name, classDef)], DefaultValue)

pushScope(env) ==
    [env EXCEPT !.variableScopes = Append(@, EmptyMap)]

\* popScope removing the scope below the innermost one
popScopeBelow(env) ==
    IF Len(env.variableScopes) <= 1
    THEN Throw(env, "Cannot pop the global scope.")
    ELSE Ok([env EXCEPT !.variableScopes =
                SubSeq(@, 1, Len(@) - 2) \o << @[Len(@)] >>],
            DefaultValue)

\* popScope without the test for the global scope
popScopeUnchecked(env) ==
    Ok([env EXCEPT !.variableScopes = SubSeq(@, 1, Len(@) - 1)], DefaultValue)

popScope(env) ==
    IF Len(env.variableScopes) <= 1
    THEN Throw(env, "Cannot pop the global scope.")
    ELSE Ok([env EXCEPT !.variableScopes = SubSeq(@, 1, Len(@) - 1)],
            DefaultValue)

TypeDefault(type) ==
    CASE type \in {"INT", "FLOAT"} -> Double(Whole(0))
      [] type = "BOOL"   -> Bool(FALSE)
      [] type = "STRING" -> String("")
      [] type = "ARRAY"  -> Array(<< >>)
      [] type \in {"MAP", "CLASS"} -> Map(EmptyMap)
      [] OTHER -> DefaultValue

declareVariable(env, name, type, className) ==
    IF type = "CLASS" /\ className \notin DOMAIN env.classRegistry
    THEN Throw(env, "Undefined class type for variable")
    ELSE IF type \notin {"INT", "FLOAT", "BOOL", "STRING", "ARRAY", "MAP", "CLASS"}
    THEN Throw(env, "Unsupported variable type for declaration.")
    ELSE LET pair == [first |-> TypeDefault(type), second |-> type]
             n == Len(env.variableScopes)
         IN IF n > 0
            THEN IF name \in DOMAIN env.variableScopes[n]
                 THEN Throw(env, "Variable already declared in current scope")
                 ELSE Ok([env EXCEPT !.variableScopes[n] = Put(@, name, pair)],
                         DefaultValue)
            ELSE IF name \in DOMAIN env.variableTable
                 THEN Throw(env, "Variable already declared in global scope")
                 ELSE Ok([env EXCEPT !.variableTable = Put(@, name, pair)],
                         DefaultValue)

\* the innermost scope binding `name`, 0 when no scope binds it
RECURSIVE ScopeOf(_, _, _)
ScopeOf(scopes, name, i) ==
    IF i = 0 THEN 0
    ELSE IF name \in DOMAIN scopes[i] THEN i
    ELSE ScopeOf(scopes, name, i - 1)

\* setVariable resolving the name from the outermost scope inwards
RECURSIVE OutermostScopeOf(_, _, _)
OutermostScopeOf(scopes, name, i) ==
    IF i > Len(scopes) THEN 0
    ELSE IF name \in DOMAIN scopes[i] THEN i
    ELSE OutermostScopeOf(scopes, name, i + 1)

setVariableOutermost(env, name, value) ==
    LET i == OutermostScopeOf(env.variableScopes, name, 1)
    IN IF i > 0
       THEN Ok([env EXCEPT !.variableScopes[i][name].first = value],
               DefaultValue)
       ELSE Throw(env, "Undefined variable. Cannot assign value.")

\* setVariable that never consults the current object instance
setVariableInScopes(env, name, value) ==
    LET i == ScopeOf(env.variableScopes, name, Len(env.variableScopes))
    IN IF i > 0
       THEN Ok([env EXCEPT !.variableScopes[i][name].first = value],
               DefaultValue)
       ELSE IF name \in DOMAIN env.variableTable
       THEN Ok([env EXCEPT !.variableTable[name].first = value], DefaultValue)
       ELSE Throw(env, "Undefined variable. Cannot assign value.")

setVariable(env, name, value) ==
    IF name \in DOMAIN env.currentObjectInstance
    THEN Ok([env EXCEPT !.currentObjectInstance[name] = value], DefaultValue)
    ELSE LET i == ScopeOf(env.variableScopes, name, Len(env.variableScopes))
         IN IF i > 0
            THEN Ok([env EXCEPT !.variableScopes[i][name].first = value],
                    DefaultValue)
            ELSE IF name \in DOMAIN env.variableTable
            THEN Ok([env EXCEPT !.variableTable[name].first = value],
                    DefaultValue)
            ELSE Throw(env, "Undefined variable. Cannot assign value.")

getVariable(env, name) ==
    IF name \in DOMAIN env.currentObjectInstance
    THEN Ok(env, env.currentObjectInstance[name])
    ELSE LET i == ScopeOf(env.variableScopes, name, Len(env.variableScopes))
         IN IF i > 0
            THEN Ok(env, env.variableScopes[i][name].first)
            ELSE IF name \in DOMAIN env.variableTable
            THEN Ok(env, env.variableTable[name].first)
            ELSE Throw(env, "Undefined variable")

isVariableDeclared(env, name) ==
    /\ Len(env.variableScopes) > 0
    /\ name \in DOMAIN env.variableScopes[Len(env.variableScopes)]

isMemberFunction(objMap, methodName) ==
    /\ methodName \in DOMAIN objMap
    /\ Kind(objMap[methodName]) = "function"

(***************************************************************************)
(* AST nodes.  A node is a record whose `node` field names its class; a    *)
(* null child pointer is the Null node.                                    *)
(***************************************************************************)
Null == [node |-> "Null"]
IsNull(n) == n.node = "Null"

ProgramNode(statements) == [node |-> "Program", statements |-> statements]
BlockNode(statements) == [node |-> "Block", statements |-> statements]
NumberNode(value) == [node |-> "Number", value |-> value]
StringNode(value) == [node |-> "String", stringValue |-> value]
BooleanNode(value) == [node |-> "Boolean", boolValue |-> value]
VariableNode(name) == [node |-> "Variable", name |-> name]
ArrayNode(elements) == [node |-> "Array", elements |-> elements]
MapNode(elements) == [node |-> "Map", mapElements |-> elements]
IndexNode(variableName, indexExpression) ==
    [node |-> "Index", variableName |-> variableName,
     indexExpression |-> indexExpression]
UnaryOpNode(op, operand) == [node |-> "UnaryOp", op |-> op, operand |-> operand]
BinaryOpNode(op, left, right) ==
    [node |-> "BinaryOp", op |-> op, left |-> left, right |-> right]
IncrementNode(incrementType, variableName) ==
    [node |-> "Increment", incrementType |-> incrementType,
     variableName |-> variableName]
DeclarationNode(variableName, type, initializer) ==
    [node |-> "Declaration", variableName |-> variableName, type |-> type,
     initializer |-> initializer]
AssignmentNode(variableName, index, expression) ==
    [node |-> "Assignment", variableName |-> variableName, index |-> index,
     expression |-> expression]
IfNode(condition, thenBranch, elseBranch) ==
    [node |-> "If", condition |-> condition, thenBranch |-> thenBranch,
     elseBranch |-> elseBranch]
WhileNode(condition, body) ==
    [node |-> "While", condition |-> condition, body |-> body]
DoWhileNode(body, condition) ==
    [node |-> "DoWhile", body |-> body, condition |-> condition]
ForNode(initializer, condition, update, body) ==
    [node |-> "For", initializer |-> initializer, condition |-> condition,
     update |-> update, body |-> body]
ReturnNode(returnValue) == [node |-> "Return", returnValue |-> returnValue]
FunctionCallNode(name, arguments) ==
    [node |-> "FunctionCall", name |-> name, arguments |-> arguments]
\* parameters: a sequence of pairs [first |-> name, second |-> ValueType]
FunctionNode(name, returnType, parameters, body) ==
    [node |-> "Function", name |-> name, returnType |-> returnType,
     parameters |-> parameters, parameterClassNames |-> << >>, body |-> body]
\* members: a sequence of pairs [first |-> member name, second |-> node]
ClassDefinitionNode(className, members, constructor) ==
    [node |-> "ClassDefinition", className |-> className, members |-> members,
     constructor |-> constructor]
ObjectInstantiationNode(className, constructorArgs) ==
    [node |-> "ObjectInstantiation", className |-> className,
     constructorArgs |-> constructorArgs]
ObjectDeclarationNode(className, objectName) ==
    [node |-> "ObjectDeclaration", className |-> className,
     objectName |-> objectName]
ObjectDeclarationAssignmentNode(className, objectName, constructorArgs) ==
    [node |-> "ObjectDeclarationAssignment", className |-> className,
     objectName |-> objectName, constructorArgs |-> constructorArgs]
MemberAccessNode(object, memberName) ==
    [node |-> "MemberAccess", object |-> object, memberName |-> memberName]
MemberFunctionCallNode(object, methodName, arguments) ==
    [node |-> "MemberFunctionCall", object |-> object,
     methodName |-> methodName, arguments |-> arguments]

Pair(first, second) == [first |-> first, second |-> second]

(***************************************************************************)
(* Native functions the host registers (Source.cpp)                        *)
(***************************************************************************)
\* print: one argument, written to the host's output
print(env, args, argumentsNames) ==
    IF Len(args) # 1
    THEN Throw(env, "print expects 1 argument")
    ELSE Ok([env EXCEPT !.printed = Append(@, args[1])], DefaultValue)

\* push of test12: appends args[2] to the array variable named by the first
\* argument name and writes the array back through the environment
\* push putting the new element in front of the array's elements
pushFront(env, args, argumentsNames) ==
    IF Len(args) # 2 \/ Len(argumentsNames) = 0
    THEN Throw(env, "push expects 2 arguments")
    ELSE LET arrayVar == getVariable(env, argumentsNames[1])
         IN IF arrayVar.error # NoError THEN arrayVar
            ELSE IF Kind(arrayVar.value) # "array"
            THEN Throw(env, "push expects the variable to be an array")
            ELSE setVariable(env, argumentsNames[1],
                             Array(<< args[2] >> \o Payload(arrayVar.value)))

push(env, args, argumentsNames) ==
    IF Len(args) # 2
    THEN Throw(env, "push expects 2 arguments")
    ELSE IF Len(argumentsNames) = 0
    THEN Throw(env, "push expects the first argument to be a variable name")
    ELSE LET varName == argumentsNames[1]
             arrayVar == getVariable(env, varName)
         IN IF arrayVar.error # NoError THEN arrayVar
            ELSE IF Kind(arrayVar.value) # "array"
            THEN Throw(env, "push expects the variable to be an array")
            ELSE setVariable(env, varName,
                             Array(Append(Payload(arrayVar.value), args[2])))

\* CallNative invoking the print native twice for one call
CallNativeTwice(name, env, args, argumentsNames) ==
    CASE name = "print" ->
            print(print(env, args, argumentsNames).env, args, argumentsNames)
      [] name = "push"  -> push(env, args, argumentsNames)
      [] OTHER -> Ok(env, DefaultValue)

CallNative(name, env, args, argumentsNames) ==
    CASE name = "print" -> print(env, args, argumentsNames)
      [] name = "push"  -> push(env, args, argumentsNames)
      [] OTHER -> Ok(env, DefaultValue)

(***************************************************************************)
(* AST evaluation (AST.cpp) and the Environment calls that evaluate bodies *)
(***************************************************************************)
RECURSIVE evaluate(_, _)
RECURSIVE EvaluateStatements(_, _, _, _)
RECURSIVE EvaluateArguments(_, _, _, _, _)
RECURSIVE EvaluateMapElements(_, _, _, _)
RECURSIVE WhileLoop(_, _, _)
RECURSIVE DoWhileLoop(_, _, _)
RECURSIVE ForLoop(_, _, _)
RECURSIVE BindParameters(_, _, _, _, _)
RECURSIVE InitializeMembers(_, _, _, _)
RECURSIVE evaluateFunction(_, _, _, _)
RECURSIVE instantiateObject(_, _, _)
RECURSIVE callMemberFunction(_, _, _, _)

\* the statement loop of BlockNode::evaluate: the value of the last
\* statement is the block's value, an exception ends the loop
EvaluateStatements(statements, i, env, lastValue) ==
    IF i > Len(statements) THEN Ok(env, lastValue)
    ELSE LET r == evaluate(statements[i], env)
         IN IF r.error # NoError THEN r
            ELSE EvaluateStatements(statements, i + 1, r.env, r.value)

\* arguments left to right; a bare VariableNode adds its name to names
EvaluateArguments(arguments, i, env, values, names) ==
    IF i > Len(arguments)
    THEN [env |-> env, values |-> values, names |-> names, error |-> NoError]
    ELSE LET arg == arguments[i]
             r == evaluate(arg, env)
             names2 == IF arg.node = "Variable" THEN Append(names, arg.name)
                       ELSE names
         IN IF r.error # NoError
            THEN [env |-> r.env, values |-> values, names |-> names2,
                  error |-> r.error]
            ELSE EvaluateArguments(arguments, i + 1, r.env,
                                   Append(values, r.value), names2)

EvaluateMapElements(elements, keys, env, acc) ==
    IF keys = {} THEN Ok(env, Map(acc))
    ELSE LET k == CHOOSE x \in keys : TRUE
             r == evaluate(elements[k], env)
         IN IF r.error # NoError THEN r
            ELSE EvaluateMapElements(elements, keys \ {k}, r.env,
                                     Put(acc, k, r.value))

\* BinaryOpNode::evaluate without the test of the divisor: a zero divisor
\* yields the default value
BinaryOpNodeEvaluateUnchecked(op, leftValue, rightValue, env) ==
    IF Kind(leftValue) = "double" /\ Kind(rightValue) = "double"
    THEN CASE op = "PLUS" ->
                Ok(env, Double(DAdd(Payload(leftValue), Payload(rightValue))))
           [] op = "MINUS" ->
                Ok(env, Double(DSub(Payload(leftValue), Payload(rightValue))))
           [] op = "MULTIPLY" ->
                Ok(env, Double(DMul(Payload(leftValue), Payload(rightValue))))
           [] op = "DIVIDE" ->
                IF DIsZero(Payload(rightValue)) THEN Ok(env, DefaultValue)
                ELSE Ok(env, Double(DDiv(Payload(leftValue),
                                         Payload(rightValue))))
           [] OTHER -> Throw(env, "Unsupported binary operation for doubles.")
    ELSE Throw(env, "Unsupported types for binary operation.")

BinaryOpNodeEvaluate(op, leftValue, rightValue, env) ==
    LET l == Payload(leftValue)
        r == Payload(rightValue)
    IN
    IF Kind(leftValue) = "double" /\ Kind(rightValue) = "double"
    THEN CASE op = "PLUS"     -> Ok(env, Double(DAdd(l, r)))
           [] op = "MINUS"    -> Ok(env, Double(DSub(l, r)))
           [] op = "MULTIPLY" -> Ok(env, Double(DMul(l, r)))
           [] op = "DIVIDE"   ->
                IF DIsZero(r) THEN Throw(env, "Division by zero.")
                ELSE Ok(env, Double(DDiv(l, r)))
           [] op = "LESS"           -> Ok(env, Bool(DLess(l, r)))
           [] op = "LESS_EQUALS"    -> Ok(env, Bool(DLessEq(l, r)))
           [] op = "GREATER"        -> Ok(env, Bool(DLess(r, l)))
           [] op = "GREATER_EQUALS" -> Ok(env, Bool(DLessEq(r, l)))
           [] OTHER -> Throw(env, "Unsupported binary operation for doubles.")
    ELSE IF Kind(leftValue) = "string" /\ Kind(rightValue) = "string"
    THEN IF op = "PLUS" THEN Ok(env, String(l \o r))
         ELSE Throw(env, "Unsupported operation for strings.")
    ELSE IF op \in {"AND", "OR"} /\ Kind(leftValue) # "bool"
    THEN Throw(env, "Logical operations require boolean values.")
    ELSE IF op \in {"AND", "OR"} /\ Kind(rightValue) = "bool"
    THEN Ok(env, Bool(IF op = "AND" THEN l /\ r ELSE l \/ r))
    ELSE IF op \in {"EQUALS", "NOT_EQUALS"}
    THEN IF Kind(leftValue) = Kind(rightValue)
         THEN LET result == IF Kind(leftValue) = "bool" THEN l = r ELSE FALSE
              IN Ok(env, Bool(IF op = "EQUALS" THEN result ELSE ~result))
         ELSE Throw(env, "Cannot compare different types for equality.")
    ELSE Throw(env, "Unsupported types for binary operation.")

UnaryOpNodeEvaluate(op, operandValue, env) ==
    CASE op = "MINUS" ->
            IF Kind(operandValue) = "double"
            THEN Ok(env, Double(DNeg(Payload(operandValue))))
            ELSE Throw(env, "Unary minus can only be applied to numeric values.")
      [] op = "NOT" ->
            IF Kind(operandValue) = "bool"
            THEN Ok(env, Bool(~Payload(operandValue)))
            ELSE Throw(env, "Logical NOT can only be applied to boolean values.")
      [] OTHER -> Throw(env, "Unsupported unary operation.")

\* IncrementNode::evaluate yielding the updated value for both forms
IncrementNodeEvaluateUpdated(n, env) ==
    LET value == getVariable(env, n.variableName)
    IN IF value.error # NoError THEN value
       ELSE IF Kind(value.value) # "double"
       THEN Throw(env, "Increment operation only supports numeric types.")
       ELSE LET varValue == DAdd(Payload(value.value), Whole(1))
                s == setVariable(env, n.variableName, Double(varValue))
            IN IF s.error # NoError THEN s ELSE Ok(s.env, Double(varValue))

IncrementNodeEvaluate(n, env) ==
    LET value == getVariable(env, n.variableName)
    IN IF value.error # NoError THEN value
       ELSE IF Kind(value.value) # "double"
       THEN Throw(env, "Increment operation only supports numeric types.")
       ELSE LET originalValue == Payload(value.value)
                varValue == DAdd(originalValue, Whole(1))
                result == IF n.incrementType = "PREFIX" THEN Double(varValue)
                          ELSE Double(originalValue)
                s == setVariable(env, n.variableName, Double(varValue))
            IN IF s.error # NoError THEN s ELSE Ok(s.env, result)

DeclarationNodeEvaluate(n, env) ==
    IF n.type \notin {"BOOL", "INT", "FLOAT", "STRING", "ARRAY", "MAP"}
    THEN Throw(env, "Unknown variable type for declaration")
    ELSE LET d == declareVariable(env, n.variableName, n.type, "")
         IN IF d.error # NoError THEN d
            ELSE LET v == IF IsNull(n.initializer)
                          THEN Ok(d.env, TypeDefault(n.type))
                          ELSE evaluate(n.initializer, d.env)
                 IN IF v.error # NoError THEN v
                    ELSE LET s == setVariable(v.env, n.variableName, v.value)
                         IN IF s.error # NoError THEN s
                            ELSE getVariable(s.env, n.variableName)

AssignmentNodeEvaluate(n, env) ==
    IF IsNull(n.index)
    THEN LET v == evaluate(n.expression, env)
         IN IF v.error # NoError THEN v
            ELSE LET s == setVariable(v.env, n.variableName, v.value)
                 IN IF s.error # NoError THEN s ELSE Ok(s.env, v.value)
    ELSE LET container == getVariable(env, n.variableName)
         IN IF container.error # NoError THEN container
         ELSE LET indexValue == evaluate(n.index, env)
         IN IF indexValue.error # NoError THEN indexValue
         ELSE LET newValue == evaluate(n.expression, indexValue.env)
         IN IF newValue.error # NoError THEN newValue
         ELSE LET c == container.value
                  e == newValue.env
                  ix == indexValue.value
         IN IF Kind(c) = "array"
            THEN IF Kind(ix) # "double"
                 THEN Throw(e, "Array index must be an integer.")
                 ELSE LET idx == DTrunc(Payload(ix))
                      IN IF idx >= 0 /\ idx < Len(Payload(c))
                         THEN LET s == setVariable(e, n.variableName,
                                  Array([Payload(c) EXCEPT ![idx + 1] =
                                             newValue.value]))
                              IN IF s.error # NoError THEN s
                                 ELSE Ok(s.env, newValue.value)
                         ELSE Throw(e, "Array index out of bounds.")
            ELSE IF Kind(c) = "map"
            THEN IF Kind(ix) # "string"
                 THEN Throw(e, "Map key must be a string.")
                 ELSE LET s == setVariable(e, n.variableName,
                                  Map(Put(Payload(c), Payload(ix),
                                          newValue.value)))
                      IN IF s.error # NoError THEN s
                         ELSE Ok(s.env, newValue.value)
            ELSE Throw(e, "Cannot index non-array or non-map type.")

VariableNodeEvaluate(n, env) ==
    LET value == getVariable(env, n.name)
    IN IF value.error # NoError THEN value
       ELSE IF Kind(value.value) = "function"
       THEN Throw(env, "Expected numeric value for variable")
       ELSE value

IndexNodeEvaluate(n, env) ==
    LET containerValue == getVariable(env, n.variableName)
    IN IF containerValue.error # NoError THEN containerValue
    ELSE LET indexValue == evaluate(n.indexExpression, env)
    IN IF indexValue.error # NoError THEN indexValue
    ELSE LET c == containerValue.value
             ix == indexValue.value
             e == indexValue.env
    IN IF Kind(c) = "array"
       THEN IF Kind(ix) # "double"
            THEN Throw(e, "Array indexing requires a numeric index.")
            ELSE LET index == DTrunc(Payload(ix))
                 IN IF index >= 0 /\ index < Len(Payload(c))
                    THEN Ok(e, Payload(c)[index + 1])
                    ELSE Throw(e, "Array index out of bounds")
       ELSE IF Kind(c) = "map"
       THEN IF Kind(ix) # "string"
            THEN Throw(e, "Map indexing requires a string key.")
            ELSE IF Payload(ix) \in DOMAIN Payload(c)
                 THEN Ok(e, Payload(c)[Payload(ix)])
                 ELSE Throw(e, "Key not found in map")
       ELSE Throw(e, "Attempted to index a non-container variable")

IfNodeEvaluate(n, env) ==
    LET condValue == evaluate(n.condition, env)
    IN IF condValue.error # NoError THEN condValue
       ELSE IF Kind(condValue.value) # "bool"
       THEN Throw(condValue.env, "Condition for 'if' must be a boolean.")
       ELSE IF Payload(condValue.value)
       THEN evaluate(n.thenBranch, condValue.env)
       ELSE IF ~IsNull(n.elseBranch)
       THEN evaluate(n.elseBranch, condValue.env)
       ELSE Ok(condValue.env, DefaultValue)

WhileLoop(n, env, fuel) ==
    IF fuel = 0 THEN Throw(env, "MaxIter")
    ELSE
    LET condValue == evaluate(n.condition, env)
    IN IF condValue.error # NoError THEN condValue
       ELSE IF Kind(condValue.value) # "bool"
       THEN Throw(condValue.env, "Condition for 'while' must be a boolean.")
       ELSE IF ~Payload(condValue.value)
       THEN Ok(condValue.env, DefaultValue)
       ELSE LET b == evaluate(n.body, condValue.env)
            IN IF b.error # NoError THEN b
               ELSE WhileLoop(n, b.env, fuel - 1)

DoWhileLoop(n, env, fuel) ==
    IF fuel = 0 THEN Throw(env, "MaxIter")
    ELSE
    LET b == evaluate(n.body, env)
    IN IF b.error # NoError THEN b
       ELSE LET condValue == evaluate(n.condition, b.env)
            IN IF condValue.error # NoError THEN condValue
               ELSE IF Kind(condValue.value) # "bool"
               THEN Throw(condValue.env,
                          "Condition for 'do-while' must be a boolean.")
               ELSE IF ~Payload(condValue.value)
               THEN Ok(condValue.env, DefaultValue)
               ELSE DoWhileLoop(n, condValue.env, fuel - 1)

\* the while (true) of ForNode::evaluate, after the initializer
ForLoop(n, env, fuel) ==
    IF fuel = 0 THEN Throw(env, "MaxIter")
    ELSE
    LET condValue == evaluate(n.condition, env)
        v == condValue.value
    IN IF condValue.error # NoError THEN condValue
       ELSE IF Kind(v) \notin {"bool", "double"}
       THEN Throw(condValue.env,
                  "Condition for 'for' must evaluate to a boolean or numeric value.")
       ELSE IF (Kind(v) = "bool" /\ ~Payload(v))
               \/ (Kind(v) = "double" /\ DIsZero(Payload(v)))
       THEN Ok(condValue.env, DefaultValue)
       ELSE LET b == evaluate(n.body, condValue.env)
            IN IF b.error # NoError THEN b
               ELSE LET u == IF IsNull(n.update) THEN b
                             ELSE evaluate(n.update, b.env)
                    IN IF u.error # NoError THEN u
                       ELSE ForLoop(n, u.env, fuel - 1)

ForNodeEvaluate(n, env) ==
    LET i == IF IsNull(n.initializer) THEN Ok(env, DefaultValue)
             ELSE evaluate(n.initializer, env)
    IN IF i.error # NoError THEN i ELSE ForLoop(n, i.env, MaxIter)

\* the parameter loop of a call: declareVariable, then setVariable with the
\* argument at the same position; reading args past its end is undefined
BindParameters(parameters, classNames, args, i, env) ==
    IF i > Len(parameters) THEN Ok(env, DefaultValue)
    ELSE LET param == parameters[i]
             className == IF param.second = "CLASS" /\ i <= Len(classNames)
                          THEN classNames[i] ELSE ""
         IN IF param.second = "CLASS" /\ i <= Len(classNames)
               /\ className = ""
            THEN Throw(env, "Missing class name for parameter")
            ELSE LET d == declareVariable(env, param.first, param.second,
                                          className)
                 IN IF d.error # NoError THEN d
                    ELSE IF i > Len(args)
                    THEN Throw(d.env, "undefined behaviour: args read out of range")
                    ELSE LET s == setVariable(d.env, param.first, args[i])
                         IN IF s.error # NoError THEN s
                            ELSE BindParameters(parameters, classNames, args,
                                                i + 1, s.env)

evaluateFunction(env, name, args, argumentsNames) ==
    IF name \in env.functionRegistry
    THEN CallNative(name, env, args, argumentsNames)
    ELSE IF name \in DOMAIN env.userFunctionRegistry
    THEN LET functionNode == env.userFunctionRegistry[name]
             classNames ==
                 [i \in 1..Len(functionNode.parameters) |->
                     IF i <= Len(functionNode.parameterClassNames)
                     THEN functionNode.parameterClassNames[i] ELSE ""]
             \* after the body: the scope is popped, the value returned
             WithBody(returnValue) ==
                 IF returnValue.error # NoError THEN returnValue
                 ELSE LET popped == popScope(returnValue.env)
                      IN IF popped.error # NoError THEN popped
                         ELSE Ok(popped.env, returnValue.value)
             WithParameters(bound) ==
                 IF bound.error # NoError THEN bound
                 ELSE WithBody(evaluate(functionNode.body, bound.env))
         IN IF functionNode.node # "Function"
            THEN Throw(env, "Function is not properly defined.")
            ELSE IF Len(args) # Len(functionNode.parameters)
            THEN Throw(env, "Function expects a different number of arguments")
            ELSE WithParameters(BindParameters(functionNode.parameters,
                                               classNames, args, 1,
                                               pushScope(env)))
    ELSE Throw(env, "Undefined function")

\* the member loop of instantiateObject and declareObject: every member that
\* is a DeclarationNode is evaluated against the environment
InitializeMembers(members, i, env, memberScope) ==
    IF i > Len(members) THEN Ok(env, Map(memberScope))
    ELSE IF members[i].second.node # "Declaration"
    THEN InitializeMembers(members, i + 1, env, memberScope)
    ELSE LET r == evaluate(members[i].second, env)
         IN IF r.error # NoError THEN r
            ELSE InitializeMembers(members, i + 1, r.env,
                                   Put(memberScope, members[i].first, r.value))

instantiateObject(env, className, args) ==
    IF className \notin DOMAIN env.classRegistry
    THEN Throw(env, "Undefined class")
    ELSE
    LET classDef == env.classRegistry[className]
        \* after the constructor body: the instance's members are read back,
        \* the current instance is cleared and the scope popped
        WithBody(body) ==
            IF body.error # NoError THEN body
            ELSE LET popped == popScope([body.env EXCEPT
                                           !.currentObjectInstance = EmptyMap])
                 IN IF popped.error # NoError THEN popped
                    ELSE Ok(popped.env, Map(body.env.currentObjectInstance))
        WithParameters(members, bound) ==
            IF bound.error # NoError THEN bound
            ELSE WithBody(evaluate(classDef.constructor.body,
                                   [bound.env EXCEPT !.currentObjectInstance =
                                                        Payload(members.value)]))
        WithArguments(members, evaluatedArgs) ==
            IF evaluatedArgs.error # NoError
            THEN Throw(evaluatedArgs.env, evaluatedArgs.error)
            ELSE WithParameters(members,
                     BindParameters(classDef.constructor.parameters, << >>,
                                    evaluatedArgs.values, 1,
                                    pushScope(evaluatedArgs.env)))
        WithMembers(members) ==
            IF members.error # NoError THEN members
            ELSE IF IsNull(classDef.constructor) THEN members
            ELSE WithArguments(members,
                     EvaluateArguments(args, 1, members.env, << >>, << >>))
    IN WithMembers(InitializeMembers(classDef.members, 1, env, EmptyMap))

callMemberFunction(env, objMap, methodName, args) ==
    IF methodName \notin DOMAIN objMap
    THEN Throw(env, "Undefined member function")
    ELSE IF Kind(objMap[methodName]) # "function"
    THEN Throw(env, "bad_variant_access")
    ELSE
    LET functionNode == Payload(objMap[methodName])
        WithBody(returnValue) ==
            IF returnValue.error # NoError THEN returnValue
            ELSE LET popped == popScope(returnValue.env)
                 IN IF popped.error # NoError THEN popped
                    ELSE Ok([popped.env EXCEPT !.currentObjectInstance =
                                                  EmptyMap],
                            returnValue.value)
        WithParameters(bound) ==
            IF bound.error # NoError THEN bound
            ELSE WithBody(evaluate(functionNode.body, bound.env))
    IN WithParameters(BindParameters(functionNode.parameters, << >>, args, 1,
                          [pushScope(env) EXCEPT
                              !.currentObjectInstance = objMap]))

declareObject(env, className, objectName) ==
    IF className \notin DOMAIN env.classRegistry
    THEN Throw(env, "Undefined class")
    ELSE
    LET classDef == env.classRegistry[className]
        members == InitializeMembers(classDef.members, 1, env, EmptyMap)
        n == Len(members.env.variableScopes)
        pair == Pair(members.value, "CLASS")
    IN IF members.error # NoError THEN members
       ELSE IF n > 0
       THEN Ok([members.env EXCEPT !.variableScopes[n] =
                                      Put(@, objectName, pair)], DefaultValue)
       ELSE Ok([members.env EXCEPT !.variableTable = Put(@, objectName, pair)],
               DefaultValue)

FunctionCallNodeEvaluate(n, env) ==
    LET a == EvaluateArguments(n.arguments, 1, env, << >>, << >>)
    IN IF a.error # NoError THEN Throw(a.env, a.error)
       ELSE evaluateFunction(a.env, n.name, a.values, a.names)

ObjectDeclarationAssignmentNodeEvaluate(n, env) ==
    LET objectValue == instantiateObject(env, n.className, n.constructorArgs)
    IN IF objectValue.error # NoError THEN objectValue
       ELSE IF isVariableDeclared(objectValue.env, n.objectName)
       THEN Throw(objectValue.env,
                  "Variable is already declared in the current scope.")
       ELSE LET d == declareVariable(objectValue.env, n.objectName, "MAP", "")
            IN IF d.error # NoError THEN d
               ELSE LET s == setVariable(d.env, n.objectName, objectValue.value)
                    IN IF s.error # NoError THEN s
                       ELSE Ok(s.env, objectValue.value)

MemberAccessNodeEvaluate(n, env) ==
    LET objValue == evaluate(n.object, env)
    IN IF objValue.error # NoError THEN objValue
       ELSE IF Kind(objValue.value) # "map"
       THEN Throw(objValue.env,
                  "Attempt to access a member of a non-object value.")
       ELSE IF n.memberName \in DOMAIN Payload(objValue.value)
       THEN Ok(objValue.env, Payload(objValue.value)[n.memberName])
       ELSE Throw(objValue.env, "Member not found")

MemberFunctionCallNodeEvaluate(n, env) ==
    LET objValue == evaluate(n.object, env)
    IN IF objValue.error # NoError THEN objValue
       ELSE IF Kind(objValue.value) # "map"
       THEN Throw(objValue.env,
                  "Attempt to call a member function on a non-object value.")
       ELSE LET objMap == Payload(objValue.value)
            IN IF n.methodName \notin DOMAIN objMap
               THEN Throw(objValue.env, "Member function not found")
               ELSE IF ~isMemberFunction(objMap, n.methodName)
               THEN Throw(objValue.env, "Member is not callable.")
               ELSE LET a == EvaluateArguments(n.arguments, 1, objValue.env,
                                               << >>, << >>)
                    IN IF a.error # NoError THEN Throw(a.env, a.error)
                       ELSE callMemberFunction(a.env, objMap, n.methodName,
                                               a.values)

\* ASTNode::evaluate, dispatched on the node's class
evaluate(n, env) ==
    CASE n.node = "Number"  -> Ok(env, Double(n.value))
      [] n.node = "String"  -> Ok(env, String(n.stringValue))
      [] n.node = "Boolean" -> Ok(env, Bool(n.boolValue))
      [] n.node = "Variable" -> VariableNodeEvaluate(n, env)
      [] n.node = "Array" ->
            LET a == EvaluateArguments(n.elements, 1, env, << >>, << >>)
            IN IF a.error # NoError THEN Throw(a.env, a.error)
               ELSE Ok(a.env, Array(a.values))
      [] n.node = "Map" ->
            EvaluateMapElements(n.mapElements, DOMAIN n.mapElements, env,
                                EmptyMap)
      [] n.node = "Index" -> IndexNodeEvaluate(n, env)
      [] n.node = "UnaryOp" ->
            LET operandValue == evaluate(n.operand, env)
            IN IF operandValue.error # NoError THEN operandValue
               ELSE UnaryOpNodeEvaluate(n.op, operandValue.value,
                                        operandValue.env)
      [] n.node = "BinaryOp" ->
            LET leftValue == evaluate(n.left, env)
            IN IF leftValue.error # NoError THEN leftValue
               ELSE LET rightValue == evaluate(n.right, leftValue.env)
                    IN IF rightValue.error # NoError THEN rightValue
                       ELSE BinaryOpNodeEvaluate(n.op, leftValue.value,
                                                 rightValue.value,
                                                 rightValue.env)
      [] n.node = "Increment" -> IncrementNodeEvaluate(n, env)
      [] n.node = "Declaration" -> DeclarationNodeEvaluate(n, env)
      [] n.node = "Assignment" -> AssignmentNodeEvaluate(n, env)
      [] n.node = "If" -> IfNodeEvaluate(n, env)
      [] n.node = "While" -> WhileLoop(n, env, MaxIter)
      [] n.node = "DoWhile" -> DoWhileLoop(n, env, MaxIter)
      [] n.node = "For" -> ForNodeEvaluate(n, env)
      [] n.node = "Return" -> evaluate(n.returnValue, env)
      [] n.node = "Block" ->
            EvaluateStatements(n.statements, 1, env, DefaultValue)
      [] n.node = "Program" ->
            LET r == EvaluateStatements(n.statements, 1, env, DefaultValue)
            IN IF r.error # NoError THEN r ELSE Ok(r.env, DefaultValue)
      [] n.node = "FunctionCall" -> FunctionCallNodeEvaluate(n, env)
      [] n.node = "Function" -> Ok(env, DefaultValue)
      [] n.node = "ClassDefinition" -> registerClass(env, n.className, n)
      [] n.node = "ObjectInstantiation" ->
            instantiateObject(env, n.className, n.constructorArgs)
      [] n.node = "ObjectDeclaration" ->
            declareObject(env, n.className, n.objectName)
      [] n.node = "ObjectDeclarationAssignment" ->
            ObjectDeclarationAssignmentNodeEvaluate(n, env)
      [] n.node = "MemberAccess" -> MemberAccessNodeEvaluate(n, env)
      [] n.node = "MemberFunctionCall" -> MemberFunctionCallNodeEvaluate(n, env)
      [] OTHER -> Throw(env, "null node evaluated")

(***************************************************************************)
(* Lexer.  The input is a sequence of lexemes: scanning of characters      *)
(* (white space, comments, digits, letters, two-character operators) is    *)
(* taken as done, what the lexer does with each lexeme is modelled.        *)
(***************************************************************************)
Token(type) == [type |-> type, numberValue |-> Whole(0), stringValue |-> ""]
NumberToken(d) == [type |-> "NUMBER", numberValue |-> d, stringValue |-> ""]
StringToken(type, str) ==
    [type |-> type, numberValue |-> Whole(0), stringValue |-> str]

\* the files readFile can open: path -> lexemes of the file's content
\* test.t declares t; self.t imports itself; a.t and b.t import each other
Files ==
    [path \in {"test.t", "self.t", "a.t", "b.t"} |->
        CASE path = "test.t" ->
                << Token("INT"), StringToken("IDENTIFIER", "t"),
                   Token("SEMICOLON") >>
          [] path = "self.t" -> << StringToken("IMPORT", "self.t") >>
          [] path = "a.t" -> << StringToken("IMPORT", "b.t") >>
          [] path = "b.t" -> << StringToken("IMPORT", "a.t") >>]

Lexer(input) ==
    [input |-> input, pos |-> 0, balanceStack |-> << >>, includedFiles |-> {}]

Lexed(lexer, token, error) ==
    [lexer |-> lexer, token |-> token, error |-> error]

\* input.insert(pos, fileContent)
InsertAt(input, pos, content) ==
    SubSeq(input, 1, pos) \o content \o SubSeq(input, pos + 1, Len(input))

\* getNextToken closing whichever opener is on top of the balance stack
getNextTokenAnyOpener(lexer) ==
    IF lexer.pos < Len(lexer.input)
    THEN
      LET current == lexer.input[lexer.pos + 1]
          advanced == [lexer EXCEPT !.pos = @ + 1]
          stack == lexer.balanceStack
      IN CASE current.type = "IMPORT" ->
                LET filePath == current.stringValue
                IN IF filePath \in lexer.includedFiles
                   THEN Lexed(advanced, Token("END"),
                              "File has already been imported")
                   ELSE IF filePath \notin DOMAIN Files
                   THEN Lexed([advanced EXCEPT !.includedFiles =
                                                  @ \cup {filePath}],
                              Token("END"), "Unable to open file")
                   ELSE Lexed([advanced EXCEPT
                                 !.includedFiles = @ \cup {filePath},
                                 !.input = InsertAt(@, advanced.pos,
                                                    Files[filePath])],
                              Token("IMPORT"), NoError)
           [] current.type \in {"LPAREN", "LBRACE"} ->
                Lexed([advanced EXCEPT !.balanceStack =
                                          Append(@, current.type)],
                      current, NoError)
           [] current.type \in {"RPAREN", "RBRACE"} ->
                IF stack = << >>
                THEN Lexed(lexer, Token("END"), "Unmatched closing symbol")
                ELSE Lexed([advanced EXCEPT !.balanceStack =
                                              SubSeq(@, 1, Len(@) - 1)],
                           current, NoError)
           [] OTHER -> Lexed(advanced, current, NoError)
    ELSE IF lexer.balanceStack # << >>
    THEN Lexed(lexer, Token("END"), "Unmatched opening symbols found")
    ELSE Lexed(lexer, Token("END"), NoError)

\* getNextToken splicing the file of every #import, imported before or not
getNextTokenReimporting(lexer) ==
    IF lexer.pos < Len(lexer.input)
    THEN
      LET current == lexer.input[lexer.pos + 1]
          advanced == [lexer EXCEPT !.pos = @ + 1]
          stack == lexer.balanceStack
          top == IF stack = << >> THEN "" ELSE stack[Len(stack)]
      IN CASE current.type = "IMPORT" ->
                LET filePath == current.stringValue
                IN IF filePath \notin DOMAIN Files
                   THEN Lexed([advanced EXCEPT !.includedFiles =
                                                  @ \cup {filePath}],
                              Token("END"), "Unable to open file")
                   ELSE Lexed([advanced EXCEPT
                                 !.includedFiles = @ \cup {filePath},
                                 !.input = InsertAt(@, advanced.pos,
                                                    Files[filePath])],
                              Token("IMPORT"), NoError)
           [] current.type \in {"LPAREN", "LBRACE"} ->
                Lexed([advanced EXCEPT !.balanceStack =
                                          Append(@, current.type)],
                      current, NoError)
           [] current.type = "RPAREN" ->
                IF top # "LPAREN"
                THEN Lexed(lexer, Token("END"), "Unmatched closing parenthesis")
                ELSE Lexed([advanced EXCEPT !.balanceStack =
                                              SubSeq(@, 1, Len(@) - 1)],
                           current, NoError)
           [] current.type = "RBRACE" ->
                IF top # "LBRACE"
                THEN Lexed(lexer, Token("END"), "Unmatched closing brace")
                ELSE Lexed([advanced EXCEPT !.balanceStack =
                                              SubSeq(@, 1, Len(@) - 1)],
                           current, NoError)
           [] OTHER -> Lexed(advanced, current, NoError)
    ELSE IF lexer.balanceStack # << >>
    THEN Lexed(lexer, Token("END"), "Unmatched opening symbols found")
    ELSE Lexed(lexer, Token("END"), NoError)

getNextToken(lexer) ==
    IF lexer.pos < Len(lexer.input)
    THEN
      LET current == lexer.input[lexer.pos + 1]
          advanced == [lexer EXCEPT !.pos = @ + 1]
          stack == lexer.balanceStack
          top == IF stack = << >> THEN "" ELSE stack[Len(stack)]
      IN CASE current.type = "IMPORT" ->
                LET filePath == current.stringValue
                IN IF filePath \in lexer.includedFiles
                   THEN Lexed(advanced, Token("END"),
                              "File has already been imported")
                   ELSE IF filePath \notin DOMAIN Files
                   THEN Lexed([advanced EXCEPT !.includedFiles =
                                                  @ \cup {filePath}],
                              Token("END"), "Unable to open file")
                   ELSE Lexed([advanced EXCEPT
                                 !.includedFiles = @ \cup {filePath},
                                 !.input = InsertAt(@, advanced.pos,
                                                    Files[filePath])],
                              Token("IMPORT"), NoError)
           [] current.type \in {"LPAREN", "LBRACE"} ->
                Lexed([advanced EXCEPT !.balanceStack =
                                          Append(@, current.type)],
                      current, NoError)
           [] current.type = "RPAREN" ->
                IF top # "LPAREN"
                THEN Lexed(lexer, Token("END"), "Unmatched closing parenthesis")
                ELSE Lexed([advanced EXCEPT !.balanceStack =
                                              SubSeq(@, 1, Len(@) - 1)],
                           current, NoError)
           [] current.type = "RBRACE" ->
                IF top # "LBRACE"
                THEN Lexed(lexer, Token("END"), "Unmatched closing brace")
                ELSE Lexed([advanced EXCEPT !.balanceStack =
                                              SubSeq(@, 1, Len(@) - 1)],
                           current, NoError)
           [] OTHER -> Lexed(advanced, current, NoError)
    ELSE IF lexer.balanceStack # << >>
    THEN Lexed(lexer, Token("END"), "Unmatched opening symbols found")
    ELSE Lexed(lexer, Token("END"), NoError)

(***************************************************************************)
(* Parser (Parser.cpp).  The parser state is the lexer, the one token of   *)
(* lookahead, the Environment it registers functions into, and the         *)
(* message of the exception that ended the parse.  Every parse function    *)
(* returns at once in a parser that has thrown.                            *)
(***************************************************************************)
Parsed(ps, node) == [ps |-> ps, node |-> node]
Failed(ps) == ps.error # NoError
Fail(ps, msg) == IF Failed(ps) THEN ps ELSE [ps EXCEPT !.error = msg]
Cur(ps) == ps.currentToken.type

\* currentToken = lexer.getNextToken(), `lexed` being what the call returned
SetCurrentToken(ps, lexed) ==
    [ps EXCEPT !.lexer = lexed.lexer, !.currentToken = lexed.token,
               !.error = lexed.error]

Parser(lexer, env) ==
    SetCurrentToken([lexer |-> lexer, currentToken |-> Token("END"),
                     env |-> env, error |-> NoError],
                    getNextToken(lexer))

eat(ps, type) ==
    IF Failed(ps) THEN ps
    ELSE IF Cur(ps) = type
    THEN SetCurrentToken(ps, getNextToken(ps.lexer))
    ELSE Fail(ps, "Unexpected token type")

TypeTokens == {"INT", "FLOAT", "BOOL", "STRING_TYPE", "VOID_TYPE", "ARRAY", "MAP"}

\* the ValueType parseType returns for a type keyword
TypeOfToken(type) ==
    CASE type = "STRING_TYPE" -> "STRING"
      [] OTHER -> type

\* returns the parser state and, in node, the ValueType
parseType(ps) ==
    IF Failed(ps) THEN Parsed(ps, "")
    ELSE IF Cur(ps) \in TypeTokens
    THEN Parsed(eat(ps, Cur(ps)), TypeOfToken(Cur(ps)))
    ELSE Parsed(Fail(ps, "Expected type declaration"), "")

RECURSIVE parseStatement(_)
RECURSIVE ParseStatementsUntil(_, _, _)
RECURSIVE ParseLevel(_, _)
RECURSIVE LevelLoop(_, _)
RECURSIVE parseUnary(_)
RECURSIVE parsePrimary(_)
RECURSIVE ParseCallArguments(_, _)
RECURSIVE ParseArrayElements(_, _)
RECURSIVE ParseMapEntries(_, _)
RECURSIVE ParseParameters(_, _)
RECURSIVE ElseLoop(_, _)

\* LevelOps with the operators of parseTerm and parseFactor exchanged
LevelOpsExchanged(k) ==
    CASE k = 1 -> {"OR"}
      [] k = 2 -> {"AND"}
      [] k = 3 -> {"EQUALS", "NOT_EQUALS"}
      [] k = 4 -> {"LESS", "LESS_EQUALS", "GREATER", "GREATER_EQUALS"}
      [] k = 5 -> {"MULTIPLY", "DIVIDE"}
      [] k = 6 -> {"PLUS", "MINUS"}

\* the operators folded at each precedence level, lowest level first
LevelOps(k) ==
    CASE k = 1 -> {"OR"}
      [] k = 2 -> {"AND"}
      [] k = 3 -> {"EQUALS", "NOT_EQUALS"}
      [] k = 4 -> {"LESS", "LESS_EQUALS", "GREATER", "GREATER_EQUALS"}
      [] k = 5 -> {"PLUS", "MINUS"}
      [] k = 6 -> {"MULTIPLY", "DIVIDE"}

\* parse one level down, then fold while the current token is of this level
ParseLevel(ps, k) ==
    IF k = 7 THEN parseUnary(ps) ELSE LevelLoop(ParseLevel(ps, k + 1), k)

LevelLoop(left, k) ==
    IF Failed(left.ps) \/ Cur(left.ps) \notin LevelOps(k) THEN left
    ELSE LET op == Cur(left.ps)
             right == ParseLevel(eat(left.ps, op), k + 1)
         IN LevelLoop(Parsed(right.ps, BinaryOpNode(op, left.node, right.node)),
                      k)

parseLogicalOr(ps) == ParseLevel(ps, 1)
parseLogicalAnd(ps) == ParseLevel(ps, 2)
parseEquality(ps) == ParseLevel(ps, 3)
parseComparison(ps) == ParseLevel(ps, 4)
parseTerm(ps) == ParseLevel(ps, 5)
parseFactor(ps) == ParseLevel(ps, 6)

parseExpression(ps) == parseLogicalOr(ps)

parseUnary(ps) ==
    IF Failed(ps) THEN Parsed(ps, Null)
    ELSE IF Cur(ps) \in {"MINUS", "NOT"}
    THEN LET op == Cur(ps)
             operand == parseUnary(eat(ps, op))
         IN Parsed(operand.ps, UnaryOpNode(op, operand.node))
    ELSE parsePrimary(ps)

\* the do-while of parseFunctionCall: expressions separated by COMMA
ParseCallArguments(ps, arguments) ==
    IF Failed(ps) THEN Parsed(ps, arguments)
    ELSE LET Argument(e) ==
                 IF ~Failed(e.ps) /\ Cur(e.ps) = "COMMA"
                 THEN ParseCallArguments(eat(e.ps, "COMMA"),
                                         Append(arguments, e.node))
                 ELSE Parsed(e.ps, Append(arguments, e.node))
         IN Argument(parseExpression(ps))

parseFunctionCall(ps, functionName) ==
    LET open == eat(ps, "LPAREN")
        Call(arguments) ==
            Parsed(eat(eat(arguments.ps, "RPAREN"), "SEMICOLON"),
                   FunctionCallNode(functionName, arguments.node))
    IN Call(IF ~Failed(open) /\ Cur(open) # "RPAREN"
            THEN ParseCallArguments(open, << >>)
            ELSE Parsed(open, << >>))

ParseArrayElements(ps, elements) ==
    IF Failed(ps) \/ Cur(ps) = "RBRACKET" THEN Parsed(ps, elements)
    ELSE LET Element(e) ==
                 IF ~Failed(e.ps) /\ Cur(e.ps) = "COMMA"
                 THEN ParseArrayElements(eat(e.ps, "COMMA"),
                                         Append(elements, e.node))
                 ELSE Parsed(e.ps, Append(elements, e.node))
         IN Element(parseExpression(ps))

parseArrayLiteral(ps) ==
    LET Closed(elements) ==
            Parsed(eat(elements.ps, "RBRACKET"), ArrayNode(elements.node))
    IN Closed(ParseArrayElements(eat(ps, "LBRACKET"), << >>))

ParseMapEntries(ps, elements) ==
    IF Failed(ps) \/ Cur(ps) = "RBRACE" THEN Parsed(ps, elements)
    ELSE LET Entry(keyNode, valueNode) ==
                 IF ~Failed(valueNode.ps) /\ Cur(valueNode.ps) = "COMMA"
                 THEN ParseMapEntries(eat(valueNode.ps, "COMMA"),
                                      Put(elements, keyNode.node.stringValue,
                                          valueNode.node))
                 ELSE Parsed(valueNode.ps,
                             Put(elements, keyNode.node.stringValue,
                                 valueNode.node))
             Key(keyNode) ==
                 IF Failed(keyNode.ps) THEN Parsed(keyNode.ps, elements)
                 ELSE IF keyNode.node.node # "String"
                 THEN Parsed(Fail(keyNode.ps, "Map keys must be strings."),
                             elements)
                 ELSE Entry(keyNode,
                            parseExpression(eat(keyNode.ps, "COLON")))
         IN Key(parseExpression(ps))

parseMapLiteral(ps) ==
    LET Closed(elements) ==
            Parsed(eat(elements.ps, "RBRACE"), MapNode(elements.node))
    IN Closed(ParseMapEntries(eat(ps, "LBRACE"), EmptyMap))

parsePrimary(ps) ==
    IF Failed(ps) THEN Parsed(ps, Null)
    ELSE
    CASE Cur(ps) = "NUMBER" ->
            Parsed(eat(ps, "NUMBER"), NumberNode(ps.currentToken.numberValue))
      [] Cur(ps) = "STRING_LITERAL" ->
            Parsed(eat(ps, "STRING_LITERAL"),
                   StringNode(ps.currentToken.stringValue))
      [] Cur(ps) = "IDENTIFIER" ->
            LET name == ps.currentToken.stringValue
                after == eat(ps, "IDENTIFIER")
                Indexed(index) ==
                    Parsed(eat(eat(index.ps, "RBRACKET"), "SEMICOLON"),
                           IndexNode(name, index.node))
            IN IF Failed(after) THEN Parsed(after, Null)
               ELSE IF Cur(after) = "LBRACKET"
               THEN Indexed(parseExpression(eat(after, "LBRACKET")))
               ELSE IF Cur(after) = "LPAREN"
               THEN parseFunctionCall(after, name)
               ELSE Parsed(after, VariableNode(name))
      [] Cur(ps) = "LPAREN" ->
            LET Grouped(expr) == Parsed(eat(expr.ps, "RPAREN"), expr.node)
            IN Grouped(parseExpression(eat(ps, "LPAREN")))
      [] Cur(ps) = "TRUE" -> Parsed(eat(ps, "TRUE"), BooleanNode(TRUE))
      [] Cur(ps) = "FALSE" -> Parsed(eat(ps, "FALSE"), BooleanNode(FALSE))
      [] Cur(ps) = "LBRACE" -> parseMapLiteral(ps)
      [] Cur(ps) = "LBRACKET" -> parseArrayLiteral(ps)
      [] OTHER -> Parsed(Fail(ps, "Unexpected token in primary"), Null)

parseDeclaration(ps) ==
    LET type == parseType(ps)
        variableName == type.ps.currentToken.stringValue
        named == eat(type.ps, "IDENTIFIER")
        Declared(initializer) ==
            Parsed(IF ~Failed(initializer.ps) /\ Cur(initializer.ps) = "SEMICOLON"
                   THEN eat(initializer.ps, "SEMICOLON") ELSE initializer.ps,
                   DeclarationNode(variableName, type.node, initializer.node))
    IN Declared(IF Failed(named) \/ Cur(named) # "ASSIGN"
                THEN Parsed(named, Null)
                ELSE CASE type.node = "ARRAY" ->
                            parseArrayLiteral(eat(named, "ASSIGN"))
                       [] type.node = "MAP" ->
                            parseMapLiteral(eat(named, "ASSIGN"))
                       [] OTHER -> parseExpression(eat(named, "ASSIGN")))

parseAssignment(ps, identifier) ==
    LET Assigned(valueExpr) ==
            Parsed(eat(valueExpr.ps, "SEMICOLON"),
                   AssignmentNode(identifier, Null, valueExpr.node))
    IN Assigned(parseExpression(eat(ps, "ASSIGN")))

\* the statement loop of a brace-delimited body (closing = RBRACE, a null
\* statement is kept) or of parseProgram (closing = END, it is dropped)
ParseStatementsUntil(ps, statements, closing) ==
    IF Failed(ps) \/ Cur(ps) = closing THEN Parsed(ps, statements)
    ELSE LET Statement(st) ==
                 ParseStatementsUntil(st.ps,
                     IF closing = "END" /\ IsNull(st.node) THEN statements
                     ELSE Append(statements, st.node),
                     closing)
         IN Statement(parseStatement(ps))

\* eat(LBRACE); while (currentToken != RBRACE) parseStatement; eat(RBRACE)
ParseBody(ps) ==
    LET Closed(bodyStatements) ==
            Parsed(eat(bodyStatements.ps, "RBRACE"),
                   BlockNode(bodyStatements.node))
    IN Closed(ParseStatementsUntil(eat(ps, "LBRACE"), << >>, "RBRACE"))

\* the while (currentToken == ELSE) of parseIfStatement
ElseLoop(ps, elseBranch) ==
    IF Failed(ps) \/ Cur(ps) # "ELSE" THEN Parsed(ps, elseBranch)
    ELSE LET afterElse == eat(ps, "ELSE")
             ElseIf(elseIfCondition, elseIfBranch) ==
                 ElseLoop(elseIfBranch.ps,
                          IfNode(elseIfCondition.node, elseIfBranch.node,
                                 elseBranch))
             Condition(elseIfCondition) ==
                 ElseIf(elseIfCondition,
                        parseStatement(eat(elseIfCondition.ps, "RPAREN")))
         IN IF Failed(afterElse) THEN Parsed(afterElse, elseBranch)
            ELSE IF Cur(afterElse) = "IF"
            THEN Condition(parseExpression(eat(eat(afterElse, "IF"),
                                               "LPAREN")))
            ELSE parseStatement(afterElse)

parseIfStatement(ps) ==
    LET Else(condition, thenBranch, elseBranch) ==
            Parsed(elseBranch.ps,
                   IfNode(condition.node, thenBranch.node, elseBranch.node))
        Then(condition, thenBranch) ==
            Else(condition, thenBranch, ElseLoop(thenBranch.ps, Null))
        Condition(condition) ==
            Then(condition, parseStatement(eat(condition.ps, "RPAREN")))
    IN Condition(parseExpression(eat(eat(ps, "IF"), "LPAREN")))

parseWhileStatement(ps) ==
    LET Body(condition, body) ==
            Parsed(body.ps, WhileNode(condition.node, body.node))
        Condition(condition) ==
            Body(condition, ParseBody(eat(condition.ps, "RPAREN")))
    IN Condition(parseExpression(eat(eat(ps, "WHILE"), "LPAREN")))

parseDoWhileStatement(ps) ==
    LET Condition(body, condition) ==
            Parsed(eat(eat(condition.ps, "RPAREN"), "SEMICOLON"),
                   DoWhileNode(body.node, condition.node))
        Body(body) ==
            Condition(body,
                      parseExpression(eat(eat(body.ps, "WHILE"), "LPAREN")))
    IN Body(parseStatement(eat(ps, "DO")))

\* the update clause of a for header
ParseForUpdate(ps) ==
    IF Failed(ps) \/ Cur(ps) = "RPAREN" THEN Parsed(ps, Null)
    ELSE IF Cur(ps) \in {"PLUSPLUS", "MINUSMINUS"}
    THEN LET op == Cur(ps)
             afterOp == eat(ps, op)
             identifier == afterOp.currentToken.stringValue
         IN Parsed(eat(afterOp, "IDENTIFIER"),
                   IncrementNode(IF op = "PLUSPLUS" THEN "PREFIX" ELSE "PREFIX",
                                 identifier))
    ELSE IF Cur(ps) = "IDENTIFIER"
    THEN LET identifier == ps.currentToken.stringValue
             after == eat(ps, "IDENTIFIER")
             Assigned(valueExpr) ==
                 Parsed(valueExpr.ps,
                        AssignmentNode(identifier, Null, valueExpr.node))
         IN IF ~Failed(after) /\ Cur(after) \in {"PLUSPLUS", "MINUSMINUS"}
            THEN LET op == Cur(after)
                 IN Parsed(eat(after, op),
                           IncrementNode(IF op = "PLUSPLUS" THEN "POSTFIX"
                                         ELSE "POSTFIX", identifier))
            ELSE Assigned(parseExpression(eat(after, "ASSIGN")))
    ELSE parseExpression(ps)

parseForStatement(ps) ==
    LET header == eat(eat(ps, "FOR"), "LPAREN")
        Body(initializer, condition, update, body) ==
            Parsed(body.ps, ForNode(initializer.node, condition.node,
                                    update.node, body.node))
        Update(initializer, condition, update) ==
            Body(initializer, condition, update,
                 ParseBody(eat(update.ps, "RPAREN")))
        Condition(initializer, condition) ==
            Update(initializer, condition,
                   ParseForUpdate(eat(condition.ps, "SEMICOLON")))
        Initializer(initializer) ==
            Condition(initializer, parseExpression(initializer.ps))
    IN Initializer(IF Failed(header) THEN Parsed(header, Null)
                   ELSE IF Cur(header) \in {"INT", "FLOAT", "BOOL", "STRING_TYPE"}
                   THEN parseDeclaration(header)
                   ELSE IF Cur(header) = "IDENTIFIER"
                   THEN parseAssignment(eat(header, "IDENTIFIER"),
                                        header.currentToken.stringValue)
                   ELSE Parsed(header, Null))

\* the do-while of parseFunctionDefinition: type name {, type name}
ParseParameters(ps, parameters) ==
    IF Failed(ps) THEN Parsed(ps, parameters)
    ELSE LET paramType == parseType(ps)
             paramName == paramType.ps.currentToken.stringValue
             named == eat(paramType.ps, "IDENTIFIER")
             parameters2 == Append(parameters, Pair(paramName, paramType.node))
         IN IF ~Failed(named) /\ Cur(named) = "COMMA"
            THEN ParseParameters(eat(named, "COMMA"), parameters2)
            ELSE Parsed(named, parameters2)

parseFunctionDefinition(ps) ==
    LET returnType == parseType(eat(ps, "FUNC"))
        functionName == returnType.ps.currentToken.stringValue
        open == eat(eat(returnType.ps, "IDENTIFIER"), "LPAREN")
        Registered(functionNode, bodyPs, registered) ==
            Parsed([bodyPs EXCEPT !.env = registered.env,
                                  !.error = registered.error],
                   functionNode)
        Defined(functionNode, bodyPs) ==
            IF Failed(bodyPs) THEN Parsed(bodyPs, Null)
            ELSE Registered(functionNode, bodyPs,
                            registerUserFunction(bodyPs.env, functionName,
                                                 functionNode))
        Body(parameters, body) ==
            Defined(FunctionNode(functionName, returnType.node,
                                 parameters.node, body.node),
                    body.ps)
        Parameters(parameters) ==
            Body(parameters, ParseBody(eat(parameters.ps, "RPAREN")))
    IN Parameters(IF ~Failed(open) /\ Cur(open) # "RPAREN"
                  THEN ParseParameters(open, << >>)
                  ELSE Parsed(open, << >>))

parseStatement(ps) ==
    IF Failed(ps) THEN Parsed(ps, Null)
    ELSE
    CASE Cur(ps) = "FUNC" -> parseFunctionDefinition(ps)
      [] Cur(ps) \in {"INT", "FLOAT", "BOOL", "STRING_TYPE", "ARRAY", "MAP"} ->
            parseDeclaration(ps)
      [] Cur(ps) = "IDENTIFIER" ->
            LET identifier == ps.currentToken.stringValue
                after == eat(ps, "IDENTIFIER")
                Assigned(indexExpr, valueExpr) ==
                    Parsed(eat(valueExpr.ps, "SEMICOLON"),
                           AssignmentNode(identifier, indexExpr.node,
                                          valueExpr.node))
                Closed(indexExpr, closed) ==
                    IF ~Failed(closed) /\ Cur(closed) = "ASSIGN"
                    THEN Assigned(indexExpr,
                                  parseExpression(eat(closed, "ASSIGN")))
                    ELSE Parsed(Fail(closed, "Unexpected token in statement"),
                                Null)
                Indexed(indexExpr) ==
                    Closed(indexExpr, eat(indexExpr.ps, "RBRACKET"))
            IN IF Failed(after) THEN Parsed(after, Null)
               ELSE
               CASE Cur(after) = "ASSIGN" -> parseAssignment(after, identifier)
                 [] Cur(after) = "LBRACKET" ->
                      Indexed(parseExpression(eat(after, "LBRACKET")))
                 [] Cur(after) = "LPAREN" -> parseFunctionCall(after, identifier)
                 [] Cur(after) \in {"PLUSPLUS", "MINUSMINUS"} ->
                      LET op == Cur(after)
                      IN Parsed(eat(eat(after, op), "SEMICOLON"),
                                IncrementNode(IF op = "PLUSPLUS" THEN "POSTFIX"
                                              ELSE "POSTFIX", identifier))
                 [] OTHER ->
                      Parsed(Fail(after, "Unexpected token after identifier"),
                             Null)
      [] Cur(ps) \in {"PLUSPLUS", "MINUSMINUS"} ->
            LET op == Cur(ps)
                afterOp == eat(ps, op)
                identifier == afterOp.currentToken.stringValue
            IN Parsed(eat(eat(afterOp, "IDENTIFIER"), "SEMICOLON"),
                      IncrementNode(IF op = "PLUSPLUS" THEN "PREFIX"
                                    ELSE "PREFIX", identifier))
      [] Cur(ps) = "RETURN" ->
            LET Returned(expr) ==
                    Parsed(eat(expr.ps, "SEMICOLON"), ReturnNode(expr.node))
            IN Returned(parseExpression(eat(ps, "RETURN")))
      [] Cur(ps) = "IF" -> parseIfStatement(ps)
      [] Cur(ps) = "WHILE" -> parseWhileStatement(ps)
      [] Cur(ps) = "FOR" -> parseForStatement(ps)
      [] Cur(ps) = "DO" -> parseDoWhileStatement(ps)
      [] Cur(ps) = "LBRACE" -> ParseBody(ps)
      [] Cur(ps) = "IMPORT" -> Parsed(eat(ps, "IMPORT"), Null)
      [] OTHER -> Parsed(Fail(ps, "Unexpected token in statement"), Null)

parseProgram(ps) ==
    LET Program(statements) ==
            Parsed(statements.ps, ProgramNode(statements.node))
    IN Program(ParseStatementsUntil(ps, << >>, "END"))

\* Parser::parse of the script `input` against the environment `env`
parse(input, env) == parseProgram(Parser(Lexer(input), env))

(***************************************************************************)
(* Scripts: what the host hands to the Lexer, as in the tests of           *)
(* Source.cpp.  Each is the lexeme sequence of the script text.            *)
(***************************************************************************)
K(type) == Token(type)
Id(name) == StringToken("IDENTIFIER", name)
Num(n) == NumberToken(Whole(n))
Str(str) == StringToken("STRING_LITERAL", str)
Import(path) == StringToken("IMPORT", path)

\* func int fact(int n){ int r=1; for(int i=1;i<=n;i=i+1){ r=r*i; } return r; }
FactDefinition ==
    << K("FUNC"), K("INT"), Id("fact"), K("LPAREN"), K("INT"), Id("n"),
       K("RPAREN"), K("LBRACE"),
       K("INT"), Id("r"), K("ASSIGN"), Num(1), K("SEMICOLON"),
       K("FOR"), K("LPAREN"), K("INT"), Id("i"), K("ASSIGN"), Num(1),
       K("SEMICOLON"), Id("i"), K("LESS_EQUALS"), Id("n"), K("SEMICOLON"),
       Id("i"), K("ASSIGN"), Id("i"), K("PLUS"), Num(1), K("RPAREN"),
       K("LBRACE"), Id("r"), K("ASSIGN"), Id("r"), K("MULTIPLY"), Id("i"),
       K("SEMICOLON"), K("RBRACE"),
       K("RETURN"), Id("r"), K("SEMICOLON"), K("RBRACE") >>

\* ... print(fact(5));
FactScript ==
    FactDefinition \o
    << Id("print"), K("LPAREN"), Id("fact"), K("LPAREN"), Num(5), K("RPAREN"),
       K("RPAREN"), K("SEMICOLON") >>

\* ... int x = fact(5); print(x);     (the shape of test5)
FactViaVariableScript ==
    FactDefinition \o
    << K("INT"), Id("x"), K("ASSIGN"), Id("fact"), K("LPAREN"), Num(5),
       K("RPAREN"), K("SEMICOLON"),
       Id("print"), K("LPAREN"), Id("x"), K("RPAREN"), K("SEMICOLON") >>

\* func int f(int a) { int y = 1 / a; return y; }  f(d);
DivideCallScript(d) ==
    << K("FUNC"), K("INT"), Id("f"), K("LPAREN"), K("INT"), Id("a"),
       K("RPAREN"), K("LBRACE"),
       K("INT"), Id("y"), K("ASSIGN"), Num(1), K("DIVIDE"), Id("a"),
       K("SEMICOLON"),
       K("RETURN"), Id("y"), K("SEMICOLON"), K("RBRACE"),
       Id("f"), K("LPAREN"), Num(d), K("RPAREN"), K("SEMICOLON") >>

CallScripts == { DivideCallScript(d) : d \in {0, 2} }

\* outer declaration of x:  int x = 1;   or   string x = "s";
OuterX(kind) ==
    IF kind = "INT"
    THEN << K("INT"), Id("x"), K("ASSIGN"), Num(1), K("SEMICOLON") >>
    ELSE << K("STRING_TYPE"), Id("x"), K("ASSIGN"), Str("s"), K("SEMICOLON") >>

\* x = x + 1; return x; }
BumpAndReturnX ==
    << Id("x"), K("ASSIGN"), Id("x"), K("PLUS"), Num(1), K("SEMICOLON"),
       K("RETURN"), Id("x"), K("SEMICOLON"), K("RBRACE") >>

\* func int f() { int x = 7; x = x + 1; return x; }      int r = f();
\* func int g(int x) { x = x + 1; return x; }            int r = g(7);
\* func int h() { x = 5; int x = 7; x = x + 1; return x; }   int r = h();
ShadowFunction(form) ==
    CASE form = "local" ->
            << K("FUNC"), K("INT"), Id("f"), K("LPAREN"), K("RPAREN"),
               K("LBRACE"),
               K("INT"), Id("x"), K("ASSIGN"), Num(7), K("SEMICOLON") >>
            \o BumpAndReturnX \o
            << K("INT"), Id("r"), K("ASSIGN"), Id("f"), K("LPAREN"),
               K("RPAREN"), K("SEMICOLON") >>
      [] form = "parameter" ->
            << K("FUNC"), K("INT"), Id("g"), K("LPAREN"), K("INT"), Id("x"),
               K("RPAREN"), K("LBRACE") >>
            \o BumpAndReturnX \o
            << K("INT"), Id("r"), K("ASSIGN"), Id("g"), K("LPAREN"), Num(7),
               K("RPAREN"), K("SEMICOLON") >>
      [] form = "late" ->
            << K("FUNC"), K("INT"), Id("h"), K("LPAREN"), K("RPAREN"),
               K("LBRACE"),
               Id("x"), K("ASSIGN"), Num(5), K("SEMICOLON"),
               K("INT"), Id("x"), K("ASSIGN"), Num(7), K("SEMICOLON") >>
            \o BumpAndReturnX \o
            << K("INT"), Id("r"), K("ASSIGN"), Id("h"), K("LPAREN"),
               K("RPAREN"), K("SEMICOLON") >>

ShadowScript(kind, form) == OuterX(kind) \o ShadowFunction(form)

ShadowScripts ==
    { ShadowScript(kind, form) :
        kind \in {"INT", "STRING"}, form \in {"local", "parameter", "late"} }

\* the lexemes of a literal, by its spelling
Literal(text) ==
    CASE text = "0"     -> << Num(0) >>
      [] text = "1"     -> << Num(1) >>
      [] text = "2"     -> << Num(2) >>
      [] text = "7"     -> << Num(7) >>
      [] text = "2.5"   -> << NumberToken(<<5, 2>>) >>
      [] text = "-2"    -> << K("MINUS"), Num(2) >>
      [] text = "true"  -> << K("TRUE") >>
      [] text = "false" -> << K("FALSE") >>
      [] text = "s"     -> << Str("s") >>
      [] text = "t"     -> << Str("t") >>
      [] text = "[1]"   -> << K("LBRACKET"), Num(1), K("RBRACKET") >>
      [] text = "{k:1}" ->
            << K("LBRACE"), Str("k"), K("COLON"), Num(1), K("RBRACE") >>
      [] text = "n"     -> << Id("n") >>

\* T v = e;     and     T v; v = e;
SetScript(form, type, text) ==
    IF form = "declaration"
    THEN << K(type), Id("v"), K("ASSIGN") >> \o Literal(text)
            \o << K("SEMICOLON") >>
    ELSE << K(type), Id("v"), K("SEMICOLON"), Id("v"), K("ASSIGN") >>
            \o Literal(text) \o << K("SEMICOLON") >>

SetScripts ==
    { SetScript(form, type, text) :
        form \in {"declaration", "assignment"},
        type \in {"INT", "FLOAT", "BOOL", "STRING_TYPE", "ARRAY"},
        text \in {"2", "2.5", "true", "s", "[1]"} }

\* m = m + 1; }
CountInM ==
    << Id("m"), K("ASSIGN"), Id("m"), K("PLUS"), Num(1), K("SEMICOLON"),
       K("RBRACE") >>

\* int n = 2; int m = 0;  followed by one of
\*   if (c) { m = m + 1; }
\*   while (c) { m = m + 1; }
\*   do { m = m + 1; } while (c);
\*   for (int i = 0; c; n = n - 1) { m = m + 1; }
ConditionScript(construct, text) ==
    << K("INT"), Id("n"), K("ASSIGN"), Num(2), K("SEMICOLON"),
       K("INT"), Id("m"), K("ASSIGN"), Num(0), K("SEMICOLON") >> \o
    CASE construct = "if" ->
            << K("IF"), K("LPAREN") >> \o Literal(text)
               \o << K("RPAREN"), K("LBRACE") >> \o CountInM
      [] construct = "while" ->
            << K("WHILE"), K("LPAREN") >> \o Literal(text)
               \o << K("RPAREN"), K("LBRACE") >> \o CountInM
      [] construct = "do" ->
            << K("DO"), K("LBRACE") >> \o CountInM
               \o << K("WHILE"), K("LPAREN") >> \o Literal(text)
               \o << K("RPAREN"), K("SEMICOLON") >>
      [] construct = "for" ->
            << K("FOR"), K("LPAREN"), K("INT"), Id("i"), K("ASSIGN"), Num(0),
               K("SEMICOLON") >> \o Literal(text) \o
            << K("SEMICOLON"), Id("n"), K("ASSIGN"), Id("n"), K("MINUS"),
               Num(1), K("RPAREN"), K("LBRACE") >> \o CountInM

\* conditions that end every loop: true is tried on the if alone
ConditionScripts ==
    { ConditionScript(construct, text) :
        construct \in {"if", "while", "do", "for"},
        text \in {"false", "0", "n", "s", "[1]"} }
    \cup { ConditionScript("if", "true") }

\* bool r = a == b;     and     bool r = a != b;
EqualityScript(op, a, b) ==
    << K("BOOL"), Id("r"), K("ASSIGN") >> \o Literal(a) \o << K(op) >>
        \o Literal(b) \o << K("SEMICOLON") >>

EqualityScripts ==
    { EqualityScript(op, a, b) :
        op \in {"EQUALS", "NOT_EQUALS"},
        a \in {"1", "2", "true", "false", "s", "t", "[1]", "{k:1}"},
        b \in {"1", "true", "s", "[1]", "{k:1}"} }

\* T i = e; i++;     and     T i = e; ++i;
IncrementScript(form, type, text) ==
    << K(type), Id("i"), K("ASSIGN") >> \o Literal(text) \o << K("SEMICOLON") >>
    \o (IF form = "postfix" THEN << Id("i"), K("PLUSPLUS") >>
        ELSE << K("PLUSPLUS"), Id("i") >>)
    \o << K("SEMICOLON") >>

IncrementTargets ==
    { <<"INT", "1">>, <<"INT", "-2">>, <<"FLOAT", "2.5">>, <<"BOOL", "true">>,
      <<"STRING_TYPE", "s">>, <<"ARRAY", "[1]">> }

IncrementScripts ==
    { IncrementScript(form, t[1], t[2]) :
        form \in {"postfix", "prefix"}, t \in IncrementTargets }

\* float q = a / b;
DivisionScript(a, b) ==
    << K("FLOAT"), Id("q"), K("ASSIGN") >> \o Literal(a) \o << K("DIVIDE") >>
        \o Literal(b) \o << K("SEMICOLON") >>

DivisionScripts ==
    { DivisionScript(a, b) :
        a \in {"0", "1", "7", "2.5", "-2"}, b \in {"0", "2", "2.5", "-2"} }

RECURSIVE ElseIfs(_, _)
\* else if (c_k) { r = k; }  for the conditions from the k-th on
ElseIfs(conditions, k) ==
    IF k > Len(conditions) THEN << >>
    ELSE << K("ELSE"), K("IF"), K("LPAREN"),
            K(IF conditions[k] THEN "TRUE" ELSE "FALSE"), K("RPAREN"),
            K("LBRACE"), Id("r"), K("ASSIGN"), Num(k), K("SEMICOLON"),
            K("RBRACE") >> \o ElseIfs(conditions, k + 1)

\* int r = 0; if (c1) { r = 1; } else if (c2) { r = 2; } ... else { r = 9; }
IfChainScript(conditions, hasElse) ==
    << K("INT"), Id("r"), K("ASSIGN"), Num(0), K("SEMICOLON"),
       K("IF"), K("LPAREN"), K(IF conditions[1] THEN "TRUE" ELSE "FALSE"),
       K("RPAREN"), K("LBRACE"), Id("r"), K("ASSIGN"), Num(1), K("SEMICOLON"),
       K("RBRACE") >>
    \o ElseIfs(conditions, 2)
    \o (IF hasElse
        THEN << K("ELSE"), K("LBRACE"), Id("r"), K("ASSIGN"), Num(9),
                K("SEMICOLON"), K("RBRACE") >>
        ELSE << >>)

IfChains ==
    UNION { [1..k -> BOOLEAN] : k \in 1..3 }

IfChainScripts ==
    { IfChainScript(conditions, hasElse) :
        conditions \in IfChains, hasElse \in BOOLEAN }

\* int x = 5; if (x > 3) { x = x + 1; }
XFiveBumped ==
    << K("INT"), Id("x"), K("ASSIGN"), Num(5), K("SEMICOLON"),
       K("IF"), K("LPAREN"), Id("x"), K("GREATER"), Num(3), K("RPAREN"),
       K("LBRACE"), Id("x"), K("ASSIGN"), Id("x"), K("PLUS"), Num(1),
       K("SEMICOLON"), K("RBRACE") >>

\* ... print(x);
PrintAfterIfScript ==
    XFiveBumped \o
    << Id("print"), K("LPAREN"), Id("x"), K("RPAREN"), K("SEMICOLON") >>

\* ... while (x < 10) { x = x + 1; print(x); }       (test2)
Test2Script ==
    XFiveBumped \o
    << K("WHILE"), K("LPAREN"), Id("x"), K("LESS"), Num(10), K("RPAREN"),
       K("LBRACE"), Id("x"), K("ASSIGN"), Id("x"), K("PLUS"), Num(1),
       K("SEMICOLON"),
       Id("print"), K("LPAREN"), Id("x"), K("RPAREN"), K("SEMICOLON"),
       K("RBRACE") >>

PrintScripts == { PrintAfterIfScript, Test2Script }

\* the tokens of one argument of a call: a, v or 4
ArgumentTokens(text) ==
    CASE text = "a" -> << Id("a") >>
      [] text = "v" -> << Id("v") >>
      [] text = "4" -> << Num(4) >>

\* array a = [1, 2, 3]; int v = 4; push(first, second); print(a);   (test12)
PushScript(first, second) ==
    << K("ARRAY"), Id("a"), K("ASSIGN"), K("LBRACKET"), Num(1), K("COMMA"),
       Num(2), K("COMMA"), Num(3), K("RBRACKET"), K("SEMICOLON"),
       K("INT"), Id("v"), K("ASSIGN"), Num(4), K("SEMICOLON"),
       Id("push"), K("LPAREN") >>
    \o ArgumentTokens(first) \o << K("COMMA") >> \o ArgumentTokens(second)
    \o << K("RPAREN"), K("SEMICOLON"),
          Id("print"), K("LPAREN"), Id("a"), K("RPAREN"), K("SEMICOLON") >>

PushScripts ==
    { PushScript("a", "4"), PushScript("a", "v"), PushScript("4", "a") }

\* func int print(int n) { return n; }  int r = print(2);
PrintDefinedScript ==
    << K("FUNC"), K("INT"), Id("print"), K("LPAREN"), K("INT"), Id("n"),
       K("RPAREN"), K("LBRACE"), K("RETURN"), Id("n"), K("SEMICOLON"),
       K("RBRACE"),
       K("INT"), Id("r"), K("ASSIGN"), Id("print"), K("LPAREN"), Num(2),
       K("RPAREN"), K("SEMICOLON") >>

\* func int f(int a) { return a; }  func int f(int b) { return 0; }
DuplicateFunctionScript ==
    << K("FUNC"), K("INT"), Id("f"), K("LPAREN"), K("INT"), Id("a"),
       K("RPAREN"), K("LBRACE"), K("RETURN"), Id("a"), K("SEMICOLON"),
       K("RBRACE"),
       K("FUNC"), K("INT"), Id("f"), K("LPAREN"), K("INT"), Id("b"),
       K("RPAREN"), K("LBRACE"), K("RETURN"), Num(0), K("SEMICOLON"),
       K("RBRACE") >>

\* u = 1;
UndeclaredAssignmentScript ==
    << Id("u"), K("ASSIGN"), Num(1), K("SEMICOLON") >>

\* func int g(int b) { return b; }
\* func int f(int a) { int y = g(a); return y; }  int r = f(2);
NestedCallScript ==
    << K("FUNC"), K("INT"), Id("g"), K("LPAREN"), K("INT"), Id("b"),
       K("RPAREN"), K("LBRACE"), K("RETURN"), Id("b"), K("SEMICOLON"),
       K("RBRACE"),
       K("FUNC"), K("INT"), Id("f"), K("LPAREN"), K("INT"), Id("a"),
       K("RPAREN"), K("LBRACE"),
       K("INT"), Id("y"), K("ASSIGN"), Id("g"), K("LPAREN"), Id("a"),
       K("RPAREN"), K("SEMICOLON"),
       K("RETURN"), Id("y"), K("SEMICOLON"), K("RBRACE"),
       K("INT"), Id("r"), K("ASSIGN"), Id("f"), K("LPAREN"), Num(2),
       K("RPAREN"), K("SEMICOLON") >>

\* the statement holding return 1; in the body of f: the return itself, or
\* the return nested in an if branch or in the body of a for loop
ReturnOne(form) ==
    LET return == << K("RETURN"), Num(1), K("SEMICOLON") >>
    IN CASE form = "plain" -> return
         [] form = "if" ->
              << K("IF"), K("LPAREN"), K("TRUE"), K("RPAREN"), K("LBRACE") >>
                 \o return \o << K("RBRACE") >>
         [] form = "for" ->
              << K("FOR"), K("LPAREN"), K("INT"), Id("i"), K("ASSIGN"), Num(0),
                 K("SEMICOLON"), Id("i"), K("LESS"), Num(2), K("SEMICOLON"),
                 Id("i"), K("ASSIGN"), Id("i"), K("PLUS"), Num(1),
                 K("RPAREN"), K("LBRACE") >>
                 \o return \o << K("RBRACE") >>

\* int x = 0;  func int f() { <return 1;>  x = 5;  return 2; }  int r = f();
ReturnScript(form) ==
    << K("INT"), Id("x"), K("ASSIGN"), Num(0), K("SEMICOLON"),
       K("FUNC"), K("INT"), Id("f"), K("LPAREN"), K("RPAREN"), K("LBRACE") >>
       \o ReturnOne(form) \o
    << Id("x"), K("ASSIGN"), Num(5), K("SEMICOLON"),
       K("RETURN"), Num(2), K("SEMICOLON"), K("RBRACE"),
       K("INT"), Id("r"), K("ASSIGN"), Id("f"), K("LPAREN"), K("RPAREN"),
       K("SEMICOLON") >>

ReturnScripts == { ReturnScript(form) : form \in {"plain", "if", "for"} }

\* int i = 3; i--;     and     int i = 3; --i;
DecrementScript(form) ==
    << K("INT"), Id("i"), K("ASSIGN"), Num(3), K("SEMICOLON") >>
    \o (IF form = "postfix" THEN << Id("i"), K("MINUSMINUS") >>
        ELSE << K("MINUSMINUS"), Id("i") >>)
    \o << K("SEMICOLON") >>

DecrementScripts == { DecrementScript(form) : form \in {"postfix", "prefix"} }

FactScripts == { FactScript, FactViaVariableScript }

Scripts ==
    FactScripts \cup CallScripts \cup ShadowScripts \cup SetScripts
        \cup ConditionScripts \cup EqualityScripts \cup IncrementScripts
        \cup DivisionScripts \cup IfChainScripts \cup PrintScripts
        \cup PushScripts \cup ReturnScripts
        \cup DecrementScripts
        \cup { PrintDefinedScript, DuplicateFunctionScript,
               UndeclaredAssignmentScript, NestedCallScript }

(***************************************************************************)
(* Programs the host builds node by node: Parser.cpp has no grammar for    *)
(* classes, so a class reaches the Environment only as a host-built tree.  *)
(***************************************************************************)
\* class C { int x = 3; func C(int a) { x = a / d; } }   C o = new C(7);
ClassProgram(d) ==
    ProgramNode(<<
        ClassDefinitionNode("C",
            << Pair("x", DeclarationNode("x", "INT", NumberNode(Whole(3)))) >>,
            FunctionNode("C", "VOID_TYPE", << Pair("a", "INT") >>,
                BlockNode(<<
                    AssignmentNode("x", Null,
                        BinaryOpNode("DIVIDE", VariableNode("a"),
                                     NumberNode(Whole(d)))) >>))),
        ObjectDeclarationAssignmentNode("C", "o", << NumberNode(Whole(7)) >>)
    >>)

\* class MyClass { int value; func MyClass(int initialValue) { value =
\* initialValue; } func void setValue(int newValue) { value = newValue; }
\* func int getValue() { return value; } }            (the class of test13)
MyClass ==
    ClassDefinitionNode("MyClass",
        << Pair("value", DeclarationNode("value", "INT", Null)),
           Pair("setValue",
                FunctionNode("setValue", "VOID_TYPE",
                    << Pair("newValue", "INT") >>,
                    BlockNode(<< AssignmentNode("value", Null,
                                     VariableNode("newValue")) >>))),
           Pair("getValue",
                FunctionNode("getValue", "INT", << >>,
                    BlockNode(<< ReturnNode(VariableNode("value")) >>))) >>,
        FunctionNode("MyClass", "VOID_TYPE", << Pair("initialValue", "INT") >>,
            BlockNode(<< AssignmentNode("value", Null,
                             VariableNode("initialValue")) >>)))

\* class MyClass {...}  int initialValue = 1;  MyClass obj = new MyClass(args);
\* int finalValue = obj.getValue();
MyClassProgram(args) ==
    ProgramNode(<<
        MyClass,
        DeclarationNode("initialValue", "INT", NumberNode(Whole(1))),
        ObjectDeclarationAssignmentNode("MyClass", "obj", args),
        DeclarationNode("finalValue", "INT",
            MemberFunctionCallNode(VariableNode("obj"), "getValue", << >>))
    >>)

\* the constructor arguments the host passes to new MyClass(...)
ConstructorArguments ==
    << << NumberNode(Whole(20)) >>,
       << BinaryOpNode("PLUS", VariableNode("initialValue"),
                       NumberNode(Whole(6))) >>,
       << NumberNode(Whole(20)), NumberNode(Whole(8)) >> >>

\* class MyClass {...}  class MyClass { }
DuplicateClassProgram ==
    ProgramNode(<< MyClass, ClassDefinitionNode("MyClass", << >>, Null) >>)

\* class MyClass {...}  int obj = 1;  MyClass obj;
RedeclaredObjectProgram ==
    ProgramNode(<< MyClass,
                   DeclarationNode("obj", "INT", NumberNode(Whole(1))),
                   ObjectDeclarationNode("MyClass", "obj") >>)

\* class MyClass {...}  u = new MyClass(20);
UndeclaredObjectProgram ==
    ProgramNode(<< MyClass,
                   AssignmentNode("u", Null,
                       ObjectInstantiationNode("MyClass",
                           << NumberNode(Whole(20)) >>)) >>)

\* class Inner { int v; func Inner(int a) { v = a; } }
Inner ==
    ClassDefinitionNode("Inner",
        << Pair("v", DeclarationNode("v", "INT", Null)) >>,
        FunctionNode("Inner", "VOID_TYPE", << Pair("a", "INT") >>,
            BlockNode(<< AssignmentNode("v", Null, VariableNode("a")) >>)))

\* class Outer { int w; func Outer(int b) { Inner part = new Inner(b);
\* w = b; } }
Outer ==
    ClassDefinitionNode("Outer",
        << Pair("w", DeclarationNode("w", "INT", Null)) >>,
        FunctionNode("Outer", "VOID_TYPE", << Pair("b", "INT") >>,
            BlockNode(<< ObjectDeclarationAssignmentNode("Inner", "part",
                             << VariableNode("b") >>),
                         AssignmentNode("w", Null, VariableNode("b")) >>)))

\* class Inner {...}  class Outer {...}  Outer o = new Outer(7);
NestedObjectProgram ==
    ProgramNode(<< Inner, Outer,
                   ObjectDeclarationAssignmentNode("Outer", "o",
                       << NumberNode(Whole(7)) >>) >>)

\* class MyClass {...}  MyClass p = new MyClass(1);  MyClass q = new MyClass(2);
TwoObjectsProgram ==
    ProgramNode(<< MyClass,
                   ObjectDeclarationAssignmentNode("MyClass", "p",
                       << NumberNode(Whole(1)) >>),
                   ObjectDeclarationAssignmentNode("MyClass", "q",
                       << NumberNode(Whole(2)) >>) >>)

HostPrograms ==
    << ClassProgram(1), ClassProgram(0), DuplicateClassProgram,
       RedeclaredObjectProgram, UndeclaredObjectProgram,
       NestedObjectProgram, TwoObjectsProgram >>
        \o [i \in DOMAIN ConstructorArguments |->
               MyClassProgram(ConstructorArguments[i])]

(***************************************************************************)
(* The host: registers natives, parses one script against the              *)
(* Environment and evaluates the program statement by statement, evaluates *)
(* one program it built itself, before or after the script, and calls      *)
(* script functions through Environment::evaluateFunction.  It catches     *)
(* every exception and goes on.                                            *)
(***************************************************************************)
VARIABLES env, input, program, pc, phase, last, built, hostCalls,
          lexer, token

vars == <<env, input, program, pc, phase, last, built, hostCalls,
          lexer, token>>

NativeNames == {"print", "push"}

Outcome(op, node, name, args, r) ==
    [op |-> op, node |-> node, name |-> name, args |-> args,
     value |-> r.value, error |-> r.error]

Init ==
    /\ env = NewEnvironment
    /\ input = << >>
    /\ program = Null
    /\ pc = 0
    /\ phase = "setup"
    /\ last = Outcome("new", Null, "", << >>, Ok(NewEnvironment, DefaultValue))
    /\ built = FALSE
    /\ hostCalls = 0
    /\ lexer = Lexer(<< >>)
    /\ token = Lexed(lexer, Token("END"), NoError)

\* env.registerFunction(name, native)
RegisterFunction(name) ==
    /\ phase = "setup"
    /\ \E r \in {registerFunction(env, name)} :
          /\ env' = r.env
          /\ last' = Outcome("registerFunction", Null, name, << >>, r)
    /\ UNCHANGED <<input, program, pc, phase, built, hostCalls, lexer, token>>

\* Lexer lexer(src); Parser parser(lexer, env); root = parser.parse();
Parse(src) ==
    /\ phase \in {"setup", "done", "failed"}
    /\ input = << >>
    /\ hostCalls = 0
    /\ \E r \in {parse(src, env)} :
          /\ env' = r.ps.env
          /\ input' = src
          /\ lexer' = r.ps.lexer
          /\ token' = Lexed(r.ps.lexer, r.ps.currentToken, r.ps.error)
          /\ program' = IF Failed(r.ps) THEN Null ELSE r.node
          /\ pc' = IF Failed(r.ps) THEN 0 ELSE 1
          /\ phase' = IF Failed(r.ps) THEN "failed"
                      ELSE IF r.node.statements = << >> THEN "done"
                      ELSE "running"
          /\ last' = Outcome("parse", Null, "", << >>,
                             Result(r.ps.env, DefaultValue, r.ps.error))
    /\ UNCHANGED <<built, hostCalls>>

\* the host builds a program itself and starts evaluating it
Build(i) ==
    /\ phase \in {"setup", "done", "failed"}
    /\ ~built
    /\ hostCalls = 0
    /\ built' = TRUE
    /\ program' = HostPrograms[i]
    /\ pc' = 1
    /\ phase' = "running"
    /\ last' = Outcome("build", Null, "", << >>, Ok(env, DefaultValue))
    /\ UNCHANGED <<env, input, hostCalls, lexer, token>>

\* one turn of the statement loop of ProgramNode::evaluate
EvaluateStatement ==
    /\ phase = "running"
    /\ LET statement == program.statements[pc]
       IN \E r \in {evaluate(statement, env)} :
          /\ env' = r.env
          /\ last' = Outcome("statement", statement, "", << >>, r)
          /\ phase' = IF r.error # NoError THEN "failed"
                      ELSE IF pc = Len(program.statements) THEN "done"
                      ELSE "running"
    /\ pc' = pc + 1
    /\ UNCHANGED <<input, program, built, hostCalls, lexer, token>>

HostArguments == { << >>, << Double(Whole(0)) >>, << Double(Whole(2)) >> }

\* env.evaluateFunction(name, args) from host code, as in test8
HostCall(name, args) ==
    /\ phase \in {"done", "failed"}
    /\ hostCalls < MaxHostCalls
    /\ name \in DOMAIN env.userFunctionRegistry
    /\ \E r \in {evaluateFunction(env, name, args, << >>)} :
          /\ env' = r.env
          /\ last' = Outcome("evaluateFunction", Null, name, args, r)
    /\ hostCalls' = hostCalls + 1
    /\ UNCHANGED <<input, program, pc, phase, built, lexer, token>>

\* env.popScope() from host code, which is public
PopScope ==
    /\ phase \in {"done", "failed"}
    /\ hostCalls < MaxHostCalls
    /\ \E r \in {popScope(env)} :
          /\ env' = r.env
          /\ last' = Outcome("popScope", Null, "", << >>, r)
    /\ hostCalls' = hostCalls + 1
    /\ UNCHANGED <<input, program, pc, phase, built, lexer, token>>

FunctionNames == {"f", "g", "h", "fact"}

Next ==
    \/ \E name \in NativeNames : RegisterFunction(name)
    \/ \E src \in Scripts : Parse(src)
    \/ \E i \in DOMAIN HostPrograms : Build(i)
    \/ EvaluateStatement
    \/ \E name \in FunctionNames, args \in HostArguments : HostCall(name, args)
    \/ PopScope

Spec == Init /\ [][Next]_vars

(***************************************************************************)
(* Vocabulary of the properties                                            *)
(***************************************************************************)
Depth(e) == Len(e.variableScopes)

\* the operation of the last step was an evaluation of script code
Evaluated(o) == o.op \in {"statement", "evaluateFunction"}

\* the user function a step called directly: from host code, as a call
\* statement, or as the initializer of a declaration
CalledFunction(o) ==
    IF o.op = "evaluateFunction" THEN o.name
    ELSE IF o.op # "statement" THEN ""
    ELSE IF o.node.node = "FunctionCall" THEN o.node.name
    ELSE IF o.node.node = "Declaration"
            /\ o.node.initializer.node = "FunctionCall"
         THEN o.node.initializer.name
    ELSE ""

RECURSIVE DeclaredNames(_), DeclaredInAll(_, _)
\* the names a statement declares when it runs
DeclaredNames(n) ==
    CASE n.node = "Declaration" -> {n.variableName}
      [] n.node \in {"Block", "Program"} -> DeclaredInAll(n.statements, 1)
      [] n.node = "If" ->
            DeclaredNames(n.thenBranch) \cup DeclaredNames(n.elseBranch)
      [] n.node \in {"While", "DoWhile"} -> DeclaredNames(n.body)
      [] n.node = "For" ->
            DeclaredNames(n.initializer) \cup DeclaredNames(n.body)
      [] OTHER -> {}
DeclaredInAll(statements, i) ==
    IF i > Len(statements) THEN {}
    ELSE DeclaredNames(statements[i]) \cup DeclaredInAll(statements, i + 1)

\* parameters and locals of a function
LocalNames(fn) ==
    {fn.parameters[i].first : i \in DOMAIN fn.parameters}
        \cup DeclaredNames(fn.body)

\* names that code other than function f declares: globals and the locals
\* of the other functions
DeclaredElsewhere(e, f) ==
    DOMAIN e.variableScopes[1] \cup DOMAIN e.variableTable
        \cup UNION { LocalNames(e.userFunctionRegistry[g]) :
                        g \in DOMAIN e.userFunctionRegistry \ {f} }

\* C1: when the body of a called function, constructor or method throws, the
\* scope pushed for the call is popped before the error reaches the caller:
\* after a failed evaluation the scope stack is as deep as it was before.
C1_ScopePoppedOnThrow ==
    [][ (Evaluated(last') /\ last'.error # NoError)
            => Depth(env') = Depth(env) ]_vars

\* C2: after a call of a user function returns, every name declared only
\* inside that function (its parameters and locals) is unbound again: a
\* lookup of it fails.
C2_LocalsUnboundAfterReturn ==
    [][ LET f == CalledFunction(last')
        IN (f \in DOMAIN env.userFunctionRegistry /\ last'.error = NoError)
            => \A x \in LocalNames(env.userFunctionRegistry[f])
                            \ DeclaredElsewhere(env, f) :
                    getVariable(env', x).error # NoError ]_vars

\* the step of the last operation, made again from environment e
Redo(o, e) ==
    IF o.op = "evaluateFunction"
    THEN evaluateFunction(e, o.name, o.args, << >>)
    ELSE evaluate(o.node, e)

RECURSIVE Mentions(_, _), MentionsAny(_, _, _)
\* statement or expression n can touch the name x: it names x, or it makes
\* a call (whose body may name x)
Mentions(n, x) ==
    CASE n.node = "Variable" -> n.name = x
      [] n.node = "Increment" -> n.variableName = x
      [] n.node = "Declaration" ->
            n.variableName = x \/ Mentions(n.initializer, x)
      [] n.node = "Assignment" ->
            \/ n.variableName = x
            \/ Mentions(n.index, x)
            \/ Mentions(n.expression, x)
      [] n.node = "Index" ->
            n.variableName = x \/ Mentions(n.indexExpression, x)
      [] n.node = "UnaryOp" -> Mentions(n.operand, x)
      [] n.node = "BinaryOp" -> Mentions(n.left, x) \/ Mentions(n.right, x)
      [] n.node = "Return" -> Mentions(n.returnValue, x)
      [] n.node = "If" ->
            \/ Mentions(n.condition, x)
            \/ Mentions(n.thenBranch, x)
            \/ Mentions(n.elseBranch, x)
      [] n.node \in {"While", "DoWhile"} ->
            Mentions(n.condition, x) \/ Mentions(n.body, x)
      [] n.node = "For" ->
            \/ Mentions(n.initializer, x)
            \/ Mentions(n.condition, x)
            \/ Mentions(n.update, x)
            \/ Mentions(n.body, x)
      [] n.node = "Block" -> MentionsAny(n.statements, x, 1)
      [] n.node = "Array" -> MentionsAny(n.elements, x, 1)
      [] n.node \in {"Null", "Number", "String", "Boolean", "Function"} -> FALSE
      [] OTHER -> TRUE
MentionsAny(nodes, x, i) ==
    /\ i <= Len(nodes)
    /\ (Mentions(nodes[i], x) \/ MentionsAny(nodes, x, i + 1))

\* function fn declares x before anything else of its body can touch x:
\* x is a parameter, or a statement of the body declares x and no earlier
\* statement mentions x
DeclaredBeforeUse(fn, x) ==
    \/ \E i \in DOMAIN fn.parameters : fn.parameters[i].first = x
    \/ \E j \in DOMAIN fn.body.statements :
          /\ fn.body.statements[j].node = "Declaration"
          /\ fn.body.statements[j].variableName = x
          /\ \A i \in 1..(j - 1) : ~Mentions(fn.body.statements[i], x)

BoundInScopes(e, x) ==
    \E k \in DOMAIN e.variableScopes : x \in DOMAIN e.variableScopes[k]

\* every binding of x that e1 holds, in a scope or as a member of the
\* current instance, is in e2 with the same value and type
SameBindings(e1, e2, x) ==
    /\ \A k \in DOMAIN e1.variableScopes :
          x \in DOMAIN e1.variableScopes[k]
             => /\ k \in DOMAIN e2.variableScopes
                /\ x \in DOMAIN e2.variableScopes[k]
                /\ e2.variableScopes[k][x] = e1.variableScopes[k][x]
    /\ x \in DOMAIN e1.currentObjectInstance
          => /\ x \in DOMAIN e2.currentObjectInstance
             /\ e2.currentObjectInstance[x] = e1.currentObjectInstance[x]

OtherValue == Double(<<41, 1>>)

\* e with every scope binding of x holding another value
WithOther(e, x) ==
    [e EXCEPT !.variableScopes =
        [k \in DOMAIN @ |->
            IF x \in DOMAIN @[k] THEN [@[k] EXCEPT ![x].first = OtherValue]
            ELSE @[k]]]

\* the step from e to e2 with outcome o neither read nor wrote the bindings
\* of x that e holds: they are as before, and the same step made with other
\* values in them has the same outcome and the same effects
Untouched(o, e, e2, x) ==
    /\ SameBindings(e, e2, x)
    /\ LET r == Redo(o, WithOther(e, x))
       IN /\ r.value = o.value
          /\ r.error = o.error
          /\ r.env = WithOther(e2, x)

C10_FactPrints120 ==
    (input = FactScript /\ "print" \in env.functionRegistry
        /\ ~built /\ hostCalls = 0)
    => /\ last.error = NoError
       /\ phase \in {"running", "done"}
       /\ phase = "done" => env.printed = << Double(Whole(120)) >>

\* a value of this runtime kind may be held by a variable of this type
Matches(type, value) ==
    CASE type = "INT" ->
            Kind(value) = "double" /\ Payload(value)[2] = 1
      [] type = "FLOAT"  -> Kind(value) = "double"
      [] type = "BOOL"   -> Kind(value) = "bool"
      [] type = "STRING" -> Kind(value) = "string"
      [] type = "ARRAY"  -> Kind(value) = "array"
      [] type \in {"MAP", "CLASS"} -> Kind(value) = "map"
      [] OTHER -> FALSE

\* the declared type of the binding an access of x reaches
DeclaredType(e, x) ==
    e.variableScopes[ScopeOf(e.variableScopes, x, Depth(e))][x].second

\* C4: setting a declared variable, by the initializer of its declaration or
\* by an assignment, to a value whose kind does not match the declared type
\* fails and leaves the binding as it was (an int takes no 2.5).
C4_TypeCheckedOnSet ==
    [][ /\ last'.op = "statement"
        /\ last'.node.node \in {"Declaration", "Assignment"}
        => LET n == last'.node
               x == n.variableName
           IN /\ (/\ n.node = "Declaration"
                  /\ ~IsNull(n.initializer)
                  /\ LET v == evaluate(n.initializer, env)
                     IN v.error = NoError /\ ~Matches(n.type, v.value))
                 => /\ last'.error # NoError
                    /\ getVariable(env', x).value \in
                          {DefaultValue, TypeDefault(n.type)}
              /\ (/\ n.node = "Assignment"
                  /\ IsNull(n.index)
                  /\ x \notin DOMAIN env.currentObjectInstance
                  /\ BoundInScopes(env, x)
                  /\ LET v == evaluate(n.expression, env)
                     IN /\ v.error = NoError
                        /\ ~Matches(DeclaredType(env, x), v.value))
                 => /\ last'.error # NoError
                    /\ env' = env ]_vars

\* the outcome of the first evaluation of the condition of an if or a loop
FirstTest(n, e) ==
    CASE n.node \in {"If", "While"} -> evaluate(n.condition, e)
      [] n.node = "For" ->
            LET i == evaluate(n.initializer, e)
            IN IF i.error # NoError THEN i ELSE evaluate(n.condition, i.env)
      [] n.node = "DoWhile" ->
            LET b == evaluate(n.body, e)
            IN IF b.error # NoError THEN b ELSE evaluate(n.condition, b.env)

\* C5: an if, while, do-while or for whose condition evaluates to a value
\* that is no boolean fails, and nothing runs after that evaluation of the
\* condition: the body of an if, a while or a for is not executed.
C5_ConditionMustBeBoolean ==
    [][ /\ last'.op = "statement"
        /\ last'.node.node \in {"If", "While", "DoWhile", "For"}
        => LET c == FirstTest(last'.node, env)
           IN (c.error = NoError /\ Kind(c.value) # "bool")
                 => (last'.error # NoError /\ env' = c.env) ]_vars

\* C6: == and != take two operands of the same kind among number, boolean
\* and string, and yield whether they are equal, or differ; operands of
\* different kinds, or arrays or maps, are an error.
C6_Equality ==
    [][ /\ last'.op = "statement"
        /\ last'.node.node = "Declaration"
        /\ last'.node.initializer.node = "BinaryOp"
        /\ last'.node.initializer.op \in {"EQUALS", "NOT_EQUALS"}
        => LET b == last'.node.initializer
               l == evaluate(b.left, env)
               r == evaluate(b.right, env)
           IN (l.error = NoError /\ r.error = NoError)
              => IF /\ Kind(l.value) = Kind(r.value)
                    /\ Kind(l.value) \in {"double", "bool", "string"}
                 THEN /\ last'.error = NoError
                      /\ last'.value =
                           Bool((l.value = r.value) <=> (b.op = "EQUALS"))
                 ELSE last'.error # NoError ]_vars

\* C7: for a numeric variable i holding n, i++ yields n and ++i yields n+1,
\* and both leave i = n+1; the form is the one written: operator after or
\* before the identifier; a target that is no number is an error and keeps
\* its value.
C7_Increment ==
    [][ \A form \in {"postfix", "prefix"}, t \in IncrementTargets :
          ( /\ input' = IncrementScript(form, t[1], t[2])
            /\ last'.op = "statement"
            /\ last'.node.node = "Increment"
            /\ getVariable(env, "i").error = NoError )
          => LET n == getVariable(env, "i").value
                 next == Double(DAdd(Payload(n), Whole(1)))
             IN IF Kind(n) = "double"
                THEN /\ last'.error = NoError
                     /\ last'.value = IF form = "postfix" THEN n ELSE next
                     /\ getVariable(env', "i").value = next
                ELSE /\ last'.error # NoError
                     /\ env' = env ]_vars

\* i++ on i = 1 yielded 1 and left 2
C7_Witness ==
    /\ input = IncrementScript("postfix", "INT", "1")
    /\ last.op = "statement"
    /\ last.node.node = "Increment"
    /\ last.error = NoError
    /\ last.value = Double(Whole(1))
    /\ getVariable(env, "i").value = Double(Whole(2))

\* C8: a / b on two numbers yields the quotient when b is not zero, and
\* fails with a division-by-zero error, yielding no value, when b is zero.
C8_Division ==
    [][ ( /\ last'.op = "statement"
          /\ last'.node.node = "Declaration"
          /\ last'.node.initializer.node = "BinaryOp"
          /\ last'.node.initializer.op = "DIVIDE"
          /\ declareVariable(env, last'.node.variableName,
                             last'.node.type, "").error = NoError )
        => LET b == last'.node.initializer
               declared == declareVariable(env, last'.node.variableName,
                                           last'.node.type, "").env
               l == evaluate(b.left, declared)
               r == evaluate(b.right, declared)
           IN ( /\ l.error = NoError /\ r.error = NoError
                /\ Kind(l.value) = "double" /\ Kind(r.value) = "double" )
              => IF Payload(r.value) = Whole(0)
                 THEN /\ last'.error = "Division by zero."
                      /\ env' = declared
                 ELSE /\ last'.error = NoError
                      /\ Kind(last'.value) = "double"
                      /\ DMul(Payload(last'.value), Payload(r.value))
                            = Payload(l.value) ]_vars

\* 7 / 0 failed with the division-by-zero error and left q as declared
C8_Witness ==
    /\ input = DivisionScript("7", "0")
    /\ last.op = "statement"
    /\ last.error = "Division by zero."
    /\ getVariable(env, "q").value = Double(Whole(0))

\* the value r has after the chain when the conditions are tested in source
\* order: the index of the first true one, else 9 with an else, 0 without
RECURSIVE FirstTrue(_, _, _)
FirstTrue(conditions, k, hasElse) ==
    IF k > Len(conditions) THEN (IF hasElse THEN 9 ELSE 0)
    ELSE IF conditions[k] THEN k
    ELSE FirstTrue(conditions, k + 1, hasElse)

\* C9: in a chain if (c1) B1 else if (c2) B2 ... else E the conditions are
\* tested in source order, exactly the branch of the first true condition
\* runs, and E runs only when every condition is false.
C9_IfChain ==
    [][ \A conditions \in IfChains, hasElse \in BOOLEAN :
          ( /\ input' = IfChainScript(conditions, hasElse)
            /\ last'.op = "statement"
            /\ last'.node.node = "If"
            /\ getVariable(env, "r").value = Double(Whole(0)) )
          => /\ last'.error = NoError
             /\ getVariable(env', "r").value =
                  Double(Whole(FirstTrue(conditions, 1, hasElse))) ]_vars

(***************************************************************************)
(* C11: natives are invoked once per executed call, in order               *)
(***************************************************************************)
\* the script ran from a fresh environment in which print was registered
RanAlone(src) ==
    /\ input = src
    /\ "print" \in env.functionRegistry
    /\ ~built
    /\ hostCalls = 0

\* a statement print(e); evaluated with print registered invokes the native
\* once, with the value e has in the environment of the call
PrintStatement ==
    (/\ last'.op = "statement"
     /\ last'.node.node = "FunctionCall"
     /\ last'.node.name = "print"
     /\ "print" \in env.functionRegistry
     /\ Len(last'.node.arguments) = 1)
    => LET a == evaluate(last'.node.arguments[1], env)
       IN IF a.error # NoError
          THEN last'.error = a.error /\ env'.printed = env.printed
          ELSE /\ last'.error = NoError
               /\ env'.printed = Append(env.printed, a.value)

\* C11: evaluating a program invokes a registered native once per executed
\* call statement, in source order, with the argument's value at that
\* moment: int x = 5; if (x > 3) { x = x + 1; } print(x); invokes print
\* exactly once, with the number 6 (and the loop of test2 invokes it with
\* 7, 8, 9, 10 in this order).
C11_NativeInvokedPerCall ==
    /\ [](RanAlone(PrintAfterIfScript)
            => /\ last.error = NoError
               /\ phase \in {"running", "done"}
               /\ phase = "done" => env.printed = << Double(Whole(6)) >>
               /\ phase = "running" => env.printed = << >>)
    /\ [](RanAlone(Test2Script) /\ phase = "done"
            => env.printed = << Double(Whole(7)), Double(Whole(8)),
                                Double(Whole(9)), Double(Whole(10)) >>)
    /\ [][PrintStatement]_vars

C11_Witness ==
    /\ RanAlone(PrintAfterIfScript)
    /\ phase = "done"
    /\ last.node.node = "FunctionCall"
    /\ env.printed = << Double(Whole(6)) >>

(***************************************************************************)
(* C12: the constructor's assignments to member names reach the object     *)
(***************************************************************************)
\* every binding of e1 is a binding of e2 with the same value and type
BindingsKept(e1, e2) ==
    /\ Len(e2.variableScopes) >= Len(e1.variableScopes)
    /\ \A i \in DOMAIN e1.variableScopes :
          \A x \in DOMAIN e1.variableScopes[i] :
             /\ x \in DOMAIN e2.variableScopes[i]
             /\ e2.variableScopes[i][x] = e1.variableScopes[i][x]

\* C12: for the class MyClass with the data member value and the
\* constructor body value = initialValue, a statement
\* MyClass o = new MyClass(a) that succeeds binds o to an object whose
\* member value equals a; the assignment changes no variable of the caller's
\* scopes: every binding of the caller is as before, and the variable value
\* that evaluating the member's declaration left in the caller's scope
\* keeps its default.
C12_ConstructorSetsMember ==
    [][(/\ last'.op = "statement"
        /\ last'.node.node = "ObjectDeclarationAssignment"
        /\ last'.node.className = "MyClass"
        /\ last'.error = NoError)
       => LET a == evaluate(last'.node.constructorArgs[1], env)
          IN /\ a.error = NoError
             /\ Kind(last'.value) = "map"
             /\ "value" \in DOMAIN Payload(last'.value)
             /\ Payload(last'.value)["value"] = a.value
             /\ getVariable(env', last'.node.objectName).value = last'.value
             /\ BindingsKept(env, env')
             /\ env'.variableScopes[Depth(env')]["value"].first
                   = TypeDefault("INT")
             /\ env'.currentObjectInstance = EmptyMap]_vars

C12_Witness ==
    /\ last.op = "statement"
    /\ last.node.node = "ObjectDeclarationAssignment"
    /\ last.node.className = "MyClass"
    /\ last.error = NoError
    /\ Payload(last.value)["value"] = Double(Whole(7))
    /\ getVariable(env, "initialValue").value = Double(Whole(1))

(***************************************************************************)
(* C13: methods in the member map, dispatch of obj.m(args)                 *)
(***************************************************************************)
\* the value of the variable x, the default value where x is not bound
ValueOf(e, x) == getVariable(e, x).value

\* C13: the object produced by new MyClass(a) holds the methods setValue
\* and getValue of the class as function references in its member map, and
\* int finalValue = obj.getValue(); is dispatched to the method: it
\* succeeds and yields the member value of obj.
C13_MethodDispatched ==
    [][/\ (/\ last'.op = "statement"
           /\ last'.node.node = "ObjectDeclarationAssignment"
           /\ last'.node.className = "MyClass"
           /\ last'.error = NoError)
          => \A member \in {"setValue", "getValue"} :
                /\ member \in DOMAIN Payload(last'.value)
                /\ Kind(Payload(last'.value)[member]) = "function"
       /\ (/\ last'.op = "statement"
           /\ last'.node.node = "Declaration"
           /\ last'.node.variableName = "finalValue"
           /\ Kind(ValueOf(env, "obj")) = "map"
           /\ "value" \in DOMAIN Payload(ValueOf(env, "obj")))
          => /\ last'.error = NoError
             /\ last'.value = Payload(ValueOf(env, "obj"))["value"]]_vars

(***************************************************************************)
(* C14: arity of calls                                                     *)
(***************************************************************************)
\* C14: a call of a user function or of a constructor with a number of
\* arguments different from the number of declared parameters fails, and it
\* fails before a parameter is bound or the body runs: no scope is pushed
\* and, for a function, the environment is as before the call.
C14_ArityChecked ==
    [][/\ (/\ last'.op = "evaluateFunction"
           /\ last'.name \in DOMAIN env.userFunctionRegistry
           /\ Len(last'.args)
                 # Len(env.userFunctionRegistry[last'.name].parameters))
          => /\ last'.error
                   = "Function expects a different number of arguments"
             /\ env' = env
       /\ (/\ last'.op = "statement"
           /\ last'.node.node = "ObjectDeclarationAssignment"
           /\ last'.node.className \in DOMAIN env.classRegistry
           /\ ~IsNull(env.classRegistry[last'.node.className].constructor)
           /\ Len(last'.node.constructorArgs)
                 # Len(env.classRegistry[last'.node.className]
                          .constructor.parameters))
          => /\ last'.error # NoError
             /\ Depth(env') = Depth(env)
             /\ last'.node.objectName \notin DOMAIN env'.variableScopes[Depth(env')]]_vars


(***************************************************************************)
(* C15: the argument names handed to a native                              *)
(***************************************************************************)
\* a call statement of a registered native is evaluated
NativeCalled(o, e) ==
    /\ o.op = "statement"
    /\ o.node.node = "FunctionCall"
    /\ o.node.name \in e.functionRegistry

\* C15: for every call of a native, the names passed with the arguments
\* are as many as the arguments, and the name at position i is the
\* identifier of argument i when it is a bare variable reference and the
\* empty string otherwise.
C15_NamesAligned ==
    [][NativeCalled(last', env)
       => LET a == EvaluateArguments(last'.node.arguments, 1, env,
                                     << >>, << >>)
          IN a.error = NoError
             => /\ Len(a.names) = Len(a.values)
                /\ \A i \in DOMAIN a.names :
                      a.names[i] =
                         IF last'.node.arguments[i].node = "Variable"
                         THEN last'.node.arguments[i].name ELSE ""]_vars


(***************************************************************************)
(* C16: push through the native bridge                                     *)
(***************************************************************************)
\* the scopes of e2 bind the names the scopes of e1 bind, and every one but
\* x with the same value and type
OthersKept(e1, e2, x) ==
    /\ Len(e2.variableScopes) = Len(e1.variableScopes)
    /\ \A i \in DOMAIN e1.variableScopes :
          /\ DOMAIN e2.variableScopes[i] = DOMAIN e1.variableScopes[i]
          /\ \A y \in DOMAIN e1.variableScopes[i] \ {x} :
                e2.variableScopes[i][y] = e1.variableScopes[i][y]
    /\ e2.variableTable = e1.variableTable
    /\ e2.currentObjectInstance = e1.currentObjectInstance

\* C16: after the statement push(a, v); on an array variable a, with push
\* registered, a holds its previous elements in their order followed by
\* the value of v, a keeps its declared type and no other binding has
\* changed; array a = [1, 2, 3]; ... push(a, 4); leaves a = [1, 2, 3, 4].
C16_PushAppends ==
    /\ [][(/\ NativeCalled(last', env)
           /\ last'.node.name = "push"
           /\ Len(last'.node.arguments) = 2
           /\ last'.node.arguments[1].node = "Variable"
           /\ Kind(ValueOf(env, last'.node.arguments[1].name)) = "array")
          => LET a == last'.node.arguments[1].name
                 v == evaluate(last'.node.arguments[2], env)
             IN /\ v.error = NoError
                /\ last'.error = NoError
                /\ ValueOf(env', a)
                      = Array(Append(Payload(ValueOf(env, a)), v.value))
                /\ DeclaredType(env', a) = DeclaredType(env, a)
                /\ OthersKept(env, env', a)]_vars
    /\ [](\A second \in {"4", "v"} :
            (/\ input = PushScript("a", second)
             /\ "push" \in env.functionRegistry
             /\ ~built /\ hostCalls = 0
             /\ pc > 3)
            => ValueOf(env, "a")
                  = Array(<< Double(Whole(1)), Double(Whole(2)),
                             Double(Whole(3)), Double(Whole(4)) >>))

C16_Witness ==
    /\ input = PushScript("a", "v")
    /\ NativeCalled(last, env)
    /\ last.node.name = "push"
    /\ last.error = NoError
    /\ ValueOf(env, "a") = Array(<< Double(Whole(1)), Double(Whole(2)),
                                    Double(Whole(3)), Double(Whole(4)) >>)


(***************************************************************************)
(* C17, C18: the registries                                                *)
(***************************************************************************)
\* C17: in every reachable state no name is in both the registry of native
\* functions and the registry of user functions.
C17_RegistriesDisjoint ==
    env.functionRegistry \cap DOMAIN env.userFunctionRegistry = {}


\* the entries of the registries of e1 are entries of e2, unchanged
RegistriesKept(e1, e2) ==
    /\ e1.functionRegistry \subseteq e2.functionRegistry
    /\ \A name \in DOMAIN e1.userFunctionRegistry :
          /\ name \in DOMAIN e2.userFunctionRegistry
          /\ e2.userFunctionRegistry[name] = e1.userFunctionRegistry[name]
    /\ \A name \in DOMAIN e1.classRegistry :
          /\ name \in DOMAIN e2.classRegistry
          /\ e2.classRegistry[name] = e1.classRegistry[name]

\* C18: registering a native, a user function or a class under a name its
\* registry already holds fails and leaves the environment as it was, and
\* no step removes or replaces an entry of a registry.
C18_RegistriesAppendOnly ==
    [][/\ RegistriesKept(env, env')
       /\ (last'.op = "registerFunction" /\ last'.name \in env.functionRegistry)
          => /\ last'.error = "Function already registered"
             /\ env' = env
       /\ (/\ last'.op = "statement"
           /\ last'.node.node = "ClassDefinition"
           /\ last'.node.className \in DOMAIN env.classRegistry)
          => /\ last'.error = "Class already registered"
             /\ env' = env
       /\ (last'.op = "parse" /\ input' = DuplicateFunctionScript)
          => /\ last'.error = "User-defined function already registered"
             /\ DOMAIN env'.userFunctionRegistry = {"f"}
             /\ env'.userFunctionRegistry["f"].parameters
                   = << Pair("a", "INT") >>]_vars

C18_Witness ==
    /\ last.op = "statement"
    /\ last.node = ClassDefinitionNode("MyClass", << >>, Null)
    /\ last.error = "Class already registered"
    /\ env.classRegistry["MyClass"] = MyClass


(***************************************************************************)
(* C19, C20: declarations and assignments of names                         *)
(***************************************************************************)
\* the bindings of the innermost active scope: the last local scope, or the
\* global table when no local scope is active
InnermostScope(e) ==
    IF Depth(e) > 0 THEN e.variableScopes[Depth(e)] ELSE e.variableTable

\* the name a declaration statement declares
DeclaredName(node) ==
    IF node.node = "Declaration" THEN node.variableName ELSE node.objectName

\* C19: a declaration statement (scalar, array, map or class-typed, with or
\* without an initializer) of a name the innermost active scope already
\* binds fails and leaves the value and the declared type of that binding
\* as they were.
C19_RedeclarationFails ==
    [][(/\ last'.op = "statement"
        /\ last'.node.node \in {"Declaration", "ObjectDeclaration",
                                 "ObjectDeclarationAssignment"}
        /\ DeclaredName(last'.node) \in DOMAIN InnermostScope(env))
       => /\ last'.error # NoError
          /\ DeclaredName(last'.node) \in DOMAIN InnermostScope(env')
          /\ InnermostScope(env')[DeclaredName(last'.node)]
                = InnermostScope(env)[DeclaredName(last'.node)]]_vars


\* the names each scope of e binds, and the names the global table binds
BoundNames(e) ==
    [scopes |-> [i \in DOMAIN e.variableScopes |-> DOMAIN e.variableScopes[i]],
     table  |-> DOMAIN e.variableTable]

\* C20: an assignment statement to a name that no scope binds and that is
\* not a member of the current instance fails, and every scope binds the
\* same names after it as before it.
C20_UndeclaredAssignmentFails ==
    [][(/\ last'.op = "statement"
        /\ last'.node.node = "Assignment"
        /\ ~BoundInScopes(env, last'.node.variableName)
        /\ last'.node.variableName \notin DOMAIN env.variableTable
        /\ last'.node.variableName \notin DOMAIN env.currentObjectInstance)
       => /\ last'.error # NoError
          /\ BoundNames(env') = BoundNames(env)]_vars


(***************************************************************************)
(* The front end on its own: a Lexer over one input, read token by token   *)
(* by getNextToken, or handed to a Parser whose parseExpression is called. *)
(***************************************************************************)
BinaryOperators ==
    {"OR", "AND", "EQUALS", "NOT_EQUALS", "LESS", "LESS_EQUALS", "GREATER",
     "GREATER_EQUALS", "PLUS", "MINUS", "MULTIPLY", "DIVIDE"}

\* 1 op 2 op 3 ...   for the operators ops[1], ops[2], ...
Operation(ops) ==
    [j \in 1..(2 * Len(ops) + 1) |->
        IF j % 2 = 1 THEN Num((j + 1) \div 2) ELSE K(ops[j \div 2])]

\* the same, bare or behind one unary operator
ExpressionInputs ==
    { prefix \o Operation(ops) :
        prefix \in {<< >>, << K("MINUS") >>, << K("NOT") >>},
        ops \in UNION { [1..n -> BinaryOperators] : n \in 0..MaxOperators } }

BracketLexemes ==
    { K("LPAREN"), K("RPAREN"), K("LBRACE"), K("RBRACE"), Num(1) }

BracketInputs == UNION { [1..n -> BracketLexemes] : n \in 0..MaxBrackets }

ImportLexemes ==
    { Import("test.t"), Import("self.t"), Import("a.t"), Import("none.t"),
      Id("x") }

ImportInputs == UNION { [1..n -> ImportLexemes] : n \in 1..MaxImports }

LexerInputs == ExpressionInputs \cup BracketInputs \cup ImportInputs

LexInit ==
    /\ env = NewEnvironment
    /\ input \in LexerInputs
    /\ program = Null
    /\ pc = 0
    /\ phase = "setup"
    /\ last = Outcome("new", Null, "", << >>, Ok(NewEnvironment, DefaultValue))
    /\ built = FALSE
    /\ hostCalls = 0
    /\ lexer = Lexer(input)
    /\ token = Lexed(lexer, Token("END"), NoError)

\* token = lexer.getNextToken(); until End or an exception
GetNextToken ==
    /\ phase = "setup"
    /\ token.error = NoError
    /\ pc = 0 \/ token.token.type # "END"
    /\ \E r \in {getNextToken(lexer)} :
          /\ lexer' = r.lexer
          /\ token' = r
    /\ pc' = pc + 1
    /\ UNCHANGED <<env, input, program, phase, last, built, hostCalls>>

\* Parser parser(lexer, env); root = parser.parseExpression();  for an
\* input that is an expression
ParseExpression ==
    /\ phase = "setup"
    /\ pc = 0
    /\ input \in ExpressionInputs
    /\ \E r \in {parseExpression(Parser(lexer, env))} :
          /\ program' = r.node
          /\ lexer' = r.ps.lexer
          /\ token' = Lexed(r.ps.lexer, r.ps.currentToken, r.ps.error)
    /\ phase' = "parsed"
    /\ UNCHANGED <<env, input, pc, last, built, hostCalls>>

LexNext == GetNextToken \/ ParseExpression

LexSpec == LexInit /\ [][LexNext]_vars

(***************************************************************************)
(* C21: precedence and grouping of binary operators                        *)
(***************************************************************************)
\* the levels of the grammar, low to high; primaries are above all
Precedence(node) ==
    IF node.node = "UnaryOp" THEN 7
    ELSE IF node.node # "BinaryOp" THEN 8
    ELSE CASE node.op = "OR" -> 1
           [] node.op = "AND" -> 2
           [] node.op \in {"EQUALS", "NOT_EQUALS"} -> 3
           [] node.op \in {"LESS", "LESS_EQUALS", "GREATER",
                           "GREATER_EQUALS"} -> 4
           [] node.op \in {"PLUS", "MINUS"} -> 5
           [] node.op \in {"MULTIPLY", "DIVIDE"} -> 6

RECURSIVE Flatten(_)
\* the lexemes of a tree of literals and operators, left to right
Flatten(node) ==
    CASE node.node = "BinaryOp" ->
            Flatten(node.left) \o << K(node.op) >> \o Flatten(node.right)
      [] node.node = "UnaryOp" -> << K(node.op) >> \o Flatten(node.operand)
      [] node.node = "Number" -> << NumberToken(node.value) >>
      [] OTHER -> << >>

RECURSIVE Grouped(_)
\* no operand of an operator is an operator of a lower level, and no right
\* operand is an operator of the same level
Grouped(node) ==
    CASE node.node = "BinaryOp" ->
            /\ Precedence(node.left) >= Precedence(node)
            /\ Precedence(node.right) > Precedence(node)
            /\ Grouped(node.left)
            /\ Grouped(node.right)
      [] node.node = "UnaryOp" ->
            /\ Precedence(node.operand) >= 7
            /\ Grouped(node.operand)
      [] OTHER -> TRUE

\* C21: parseExpression reads every expression of number literals and
\* binary operators to its end, and the tree it returns has the lexemes of
\* the input in their order, binds an operator of a higher level tighter
\* than one of a lower level and groups operators of one level left to
\* right; 1 - 2 - 3 is (1 - 2) - 3 and 1 + 2 * 3 is 1 + (2 * 3).
C21_PrecedenceAndGrouping ==
    (phase = "parsed" /\ input \in ExpressionInputs)
       => /\ token.error = NoError
          /\ token.token.type = "END"
          /\ Flatten(program) = input
          /\ Grouped(program)
          /\ input = Operation(<< "MINUS", "MINUS" >>)
                => program = BinaryOpNode("MINUS",
                                 BinaryOpNode("MINUS", NumberNode(Whole(1)),
                                              NumberNode(Whole(2))),
                                 NumberNode(Whole(3)))

C21_Witness ==
    /\ phase = "parsed"
    /\ input = Operation(<< "PLUS", "MULTIPLY" >>)
    /\ program = BinaryOpNode("PLUS", NumberNode(Whole(1)),
                     BinaryOpNode("MULTIPLY", NumberNode(Whole(2)),
                                  NumberNode(Whole(3))))


(***************************************************************************)
(* C22, C23: the lexer's brackets and imports                              *)
(***************************************************************************)
\* the opener a closing lexeme matches
OpenerOf(type) == IF type = "RPAREN" THEN "LPAREN" ELSE "LBRACE"

RECURSIVE Unclosed(_, _)
\* the openers among the first n lexemes that no later lexeme among them
\* closed, oldest first
Unclosed(lexemes, n) ==
    IF n = 0 THEN << >>
    ELSE LET before == Unclosed(lexemes, n - 1)
             type == lexemes[n].type
         IN IF type \in {"LPAREN", "LBRACE"} THEN Append(before, type)
            ELSE IF /\ type \in {"RPAREN", "RBRACE"}
                    /\ before # << >>
                    /\ before[Len(before)] = OpenerOf(type)
            THEN SubSeq(before, 1, Len(before) - 1)
            ELSE before

\* lexeme n closes the innermost unclosed opener before it
Closes(lexemes, n) ==
    LET before == Unclosed(lexemes, n - 1)
    IN /\ before # << >>
       /\ before[Len(before)] = OpenerOf(lexemes[n].type)

\* every ( and { is closed by a matching ) or } in properly nested order
Balanced(lexemes) ==
    /\ \A n \in DOMAIN lexemes :
          lexemes[n].type \in {"RPAREN", "RBRACE"} => Closes(lexemes, n)
    /\ Unclosed(lexemes, Len(lexemes)) = << >>

\* C22: when getNextToken has yielded End, the lexer is at the end of its
\* input and the brackets of the input are balanced; a call of getNextToken
\* at a ) or } whose opener is not the innermost unclosed one fails at that
\* lexeme, and a call at the end of an input with an unclosed opener fails.
C22_BracketsBalanced ==
    /\ [](pc > 0 /\ token.error = NoError /\ token.token.type = "END"
            => /\ lexer.pos = Len(lexer.input)
               /\ Balanced(lexer.input))
    /\ [][pc' = pc + 1 =>
            /\ (/\ lexer.pos < Len(lexer.input)
                /\ lexer.input[lexer.pos + 1].type \in {"RPAREN", "RBRACE"}
                /\ ~Closes(lexer.input, lexer.pos + 1))
               => /\ token'.error \in {"Unmatched closing parenthesis",
                                       "Unmatched closing brace"}
                  /\ lexer' = lexer
            /\ (/\ lexer.pos = Len(lexer.input)
                /\ Unclosed(lexer.input, lexer.pos) # << >>)
               => /\ token'.error = "Unmatched opening symbols found"
                  /\ lexer' = lexer]_vars

C22_Witness ==
    /\ input = << K("LPAREN"), K("LBRACE"), K("RPAREN") >>
    /\ pc = 3
    /\ token.error = "Unmatched closing parenthesis"
    /\ lexer.pos = 2


\* the positions of the #import lexemes the lexer has read
ImportsRead(l) == { i \in 1..l.pos : l.input[i].type = "IMPORT" }

\* the paths of the #import lexemes the lexer has read
ImportedPaths(l) == { l.input[i].stringValue : i \in ImportsRead(l) }

\* C23: a call of getNextToken at an #import of a path that an #import read
\* before in this Lexer named, in the script or in spliced text, fails and
\* splices nothing; so of two #import lexemes of one path that the lexer has
\* read, the second is the one the lexer has just failed at.
C23_ImportedOnce ==
    /\ [][(/\ pc' = pc + 1
           /\ lexer.pos < Len(lexer.input)
           /\ lexer.input[lexer.pos + 1].type = "IMPORT"
           /\ lexer.input[lexer.pos + 1].stringValue \in ImportedPaths(lexer))
          => /\ token'.error = "File has already been imported"
             /\ lexer'.input = lexer.input]_vars
    /\ [](\A i, j \in ImportsRead(lexer) :
             (i < j /\ lexer.input[i].stringValue = lexer.input[j].stringValue)
                => /\ j = lexer.pos
                   /\ token.error = "File has already been imported")

C23_Witness ==
    /\ input = << Import("a.t") >>
    /\ lexer.input = << Import("a.t"), Import("b.t"), Import("a.t") >>
    /\ lexer.pos = 3
    /\ token.error = "File has already been imported"


(***************************************************************************)
(* C24, C25: the scope stack                                               *)
(***************************************************************************)
\* the step of the last operation called a user function or a constructor
Called(o) ==
    \/ CalledFunction(o) # ""
    \/ o.op = "statement" /\ o.node.node = "ObjectDeclarationAssignment"

\* the names a statement that makes a call binds in the scope it runs in:
\* the variable it declares, and for an instantiation the data members too
BoundByStatement(o, e) ==
    IF o.op # "statement" THEN {}
    ELSE IF o.node.node = "Declaration" THEN {o.node.variableName}
    ELSE IF o.node.node = "ObjectDeclarationAssignment"
    THEN {o.node.objectName}
            \cup LET members == e.classRegistry[o.node.className].members
                 IN { members[i].first : i \in DOMAIN members }
    ELSE {}

\* C24: after a step that called a user function or a constructor and
\* returned normally the scope stack is as deep as before the step, every
\* scope below the innermost binds the names it bound before, and the
\* innermost scope binds what it bound before and at most what the calling
\* statement itself declares: the scope removed is the scope of the call.
C24_ScopesBalanced ==
    [][(Called(last') /\ last'.error = NoError)
          => /\ Depth(env') = Depth(env)
             /\ \A k \in 1..(Depth(env) - 1) :
                   DOMAIN env'.variableScopes[k] = DOMAIN env.variableScopes[k]
             /\ DOMAIN env.variableScopes[Depth(env)]
                   \subseteq DOMAIN env'.variableScopes[Depth(env)]
             /\ DOMAIN env'.variableScopes[Depth(env)]
                   \subseteq DOMAIN env.variableScopes[Depth(env)]
                                \cup BoundByStatement(last', env)]_vars

\* a call of f from the host, which calls g, has returned after the script
\* of the nested call ran
C24_Witness ==
    /\ input = NestedCallScript
    /\ last.op = "evaluateFunction"
    /\ last.name = "f"
    /\ last.error = NoError
    /\ Depth(env) >= 1
    /\ "r" \in DOMAIN env.variableScopes[1]


\* C25: the scope stack always holds at least one scope, and popScope
\* called when it holds exactly one fails and leaves the environment as it
\* was.
C25_GlobalScopeStays ==
    /\ [](Depth(env) >= 1)
    /\ [][(last'.op = "popScope" /\ Depth(env) = 1)
             => /\ last'.error = "Cannot pop the global scope."
                /\ env' = env]_vars

C25_Witness ==
    /\ last.op = "popScope"
    /\ last.error = "Cannot pop the global scope."
    /\ Depth(env) = 1


(***************************************************************************)
(* C26: return                                                             *)
(***************************************************************************)
\* C26: in int x = 0; func int f() { return 1; x = 5; return 2; }
\* int r = f();  with the first return bare, in an if branch or in a for
\* body, nothing of the body runs after return 1; has been evaluated and the
\* call yields its value: the call succeeds, r is 1 and x is still 0.
C26_ReturnEndsBody ==
    [][(/\ input' \in ReturnScripts
        /\ last'.op = "statement"
        /\ CalledFunction(last') = "f")
       => /\ last'.error = NoError
          /\ ValueOf(env', "r") = Double(Whole(1))
          /\ ValueOf(env', "x") = Double(Whole(0))]_vars


(***************************************************************************)
(* C27: the -- operator                                                    *)
(***************************************************************************)
\* C27: the statements i--; and --i; succeed on the numeric variable i and
\* leave it exactly one less than before.
C27_DecrementSubtracts ==
    [][(/\ input' \in DecrementScripts
        /\ last'.op = "statement"
        /\ last'.node.node = "Increment")
       => /\ last'.error = NoError
          /\ ValueOf(env', "i") = Double(DSub(Payload(ValueOf(env, "i")),
                                              Whole(1)))]_vars


(***************************************************************************)
(* C28, C29, C30: the current instance and instantiation                   *)
(***************************************************************************)
\* C28: in the constructor of Outer, func Outer(int b) { Inner part = new
\* Inner(b); w = b; }, the write of w after the inner constructor call has
\* returned goes to the member w of the Outer instance: Outer o = new
\* Outer(7); succeeds and binds o to an object whose member w is 7.
C28_OuterInstanceRestored ==
    [][(/\ last'.op = "statement"
        /\ last'.node.node = "ObjectDeclarationAssignment"
        /\ last'.node.className = "Outer")
       => /\ last'.error = NoError
          /\ Kind(ValueOf(env', "o")) = "map"
          /\ "w" \in DOMAIN Payload(ValueOf(env', "o"))
          /\ Payload(ValueOf(env', "o"))["w"] = Double(Whole(7))]_vars


\* C29: a statement  C o = new C(args);  that succeeds binds o in the
\* innermost scope and no other name in any scope, and in  MyClass p = new
\* MyClass(1); MyClass q = new MyClass(2);  both statements succeed.
C29_InstantiationBindsNothing ==
    [][(/\ last'.op = "statement"
        /\ last'.node.node = "ObjectDeclarationAssignment")
       => /\ last'.error = NoError
             => /\ Depth(env') = Depth(env)
                /\ \A k \in 1..Depth(env) :
                      DOMAIN env'.variableScopes[k]
                         = DOMAIN env.variableScopes[k]
                              \cup (IF k = Depth(env)
                                    THEN {last'.node.objectName} ELSE {})
          /\ program' = TwoObjectsProgram => last'.error = NoError]_vars


\* C30: between the steps of the host no constructor or method body is
\* executing, and the current instance is empty: no lookup or assignment of
\* the next step is shadowed by the members of an object.
C30_NoInstanceBetweenCalls ==
    env.currentObjectInstance = EmptyMap


====
